---- MODULE Spec2Model ----
(***************************************************************************)
(* NexOps MCP: the guarded synthesis engine (generate_guarded), the        *)
(* generation controller (generate) and the repair agent (repair), as one  *)
(* state machine per request.  The oracle (LLM), the compiler and the      *)
(* provider factory are the environment: each of their answers is a        *)
(* nondeterministic choice.                                                *)
(*                                                                         *)
(* A contract source is identified by the verdicts the deterministic       *)
(* gates give on it: the language guard, the DSL linter, the toll gate     *)
(* and the sanity checker are pure functions of the source text (mode and  *)
(* intent model are fixed during a request), so a source is modelled as    *)
(* the record of those verdicts.  The compiler is an external process      *)
(* (it can time out), so its verdict is chosen per call.                   *)
(***************************************************************************)
EXTENDS Integers, Sequences, FiniteSets, TLC

\* ---------------------------------------------------------------- bounds
MaxLintRules == 1
MaxDetectors == 2
MaxRawErrors == 2
MaxRequires  == 2

\* ------------------------------------------------------ program constants
max_gen_retries  == 2
max_lint_retries == 3
max_fix_retries  == 3
MAX_RETRIES      == 3

\* ------------------------------------------------------------ value sets
LintRuleIds   == 1..MaxLintRules
DetectorRules == 1..MaxDetectors
RawErrors     == {"E" \o ToString(i) : i \in 1..MaxRawErrors}

\* A synthesized source, by the verdicts of the deterministic gates on it.
Codes == [guard : BOOLEAN, lint : SUBSET LintRuleIds,
          toll : SUBSET DetectorRules, sanity : BOOLEAN]
NoCode == [none |-> TRUE]

\* Optional[List[ViolationDetail]]: None, or a list (here: the set of rules).
NoViolations   == [none |-> TRUE]
Violations(vs) == [none |-> FALSE, rules |-> vs]

\* The structured compiler error of _parse_cashc_error, by its raw text.
ErrorObjs == [raw : RawErrors]
NoError   == [none |-> TRUE]

NoResult == [type |-> "none"]

\* A source handed to the repair agent, by what its two gates look at: the
\* number of require( statements and the lint rule ids the linter reports.
RepairCodes == [requires : 0..MaxRequires, lint : SUBSET LintRuleIds]

\* What LLMFactory.get_provider("repair") hands to the repair agent.  The agent
\* reads .primary and .fallbacks of it; the ResilientProvider of llm/base.py
\* keeps only .configs ("configs_only"), a provider exposing both attributes
\* has one escalation tier ("tiered") or none ("single_tier").
ProviderShapes == {"configs_only", "tiered", "single_tier"}

SessionIds == {"s1", "u1"}
NoSessions == [sid \in {} |-> [history |-> <<>>, current_code |-> NoCode]]

\* --------------------------------------------------- the deterministic gates
\* Fault variant: the guard reports a failure exactly when nothing matched.
guard_failure_inverted(c) == c.guard

\* LanguageGuard.validate: a failure message, or None when nothing matched.
guard_failure(c) == ~c.guard

\* DSLLinter.lint: passed iff no rule reported anything.
Lint(c) == [passed |-> c.lint = {}, violations |-> c.lint]

\* Phase3.validate: passed iff the enforcer reported no violation.
Phase3Validate(c) == [passed |-> c.toll = {}, violations |-> c.toll]

\* SanityChecker.validate
SanityValidate(c) == [success |-> c.sanity]

\* Phase2.run builds a violation context only for a non-empty list on a retry.
ViolationContext(violations, retry_count) ==
    IF ~violations.none /\ violations.rules # {} /\ retry_count > 0
    THEN violations.rules ELSE {}

\* Fault variant: the generation loop runs one attempt too many.
InGenerationLoopOffByOne(k) == k <= max_gen_retries

\* for gen_attempt in range(max_gen_retries)
InGenerationLoop(k) == k < max_gen_retries

\* Fault variant: a toll-gate failure drops its violations like any other failure.
DropTollViolations(tg) == NoViolations

\* previous_violations after a toll-gate failure (carried forward) ...
CarryTollViolations(tg) == Violations(tg.violations)
\* ... and after any other failure of an attempt (cleared).
ClearViolations(pv) == NoViolations

\* The fallback return after the generation loop.
ExhaustedResult(err) ==
    [type |-> "error",
     error |-> [code |-> "generation_exhausted", last_compiler_error |-> err]]

SuccessResult(c, tg, sr) ==
    [type |-> "success", data |-> [code |-> c, toll_gate |-> tg, sanity_check |-> sr]]

ErrorResult(code_) == [type |-> "error", error |-> [code |-> code_]]

\* _error of the controller: violations are attached only when non-empty.
ControllerError(code_, vs) ==
    IF vs = {} THEN [type |-> "error", error |-> [code |-> code_]]
    ELSE [type |-> "error", error |-> [code |-> code_, violations |-> vs]]

ControllerSuccess(c, sid) ==
    [type |-> "success", data |-> [code |-> c, session_id |-> sid]]

RepairResponse(c, ok) ==
    [type |-> "repair_response", corrected_code |-> c, success |-> ok]

\* RepairAgent._count_requires
count_requires(c) == c.requires

\* Fault variant: the set difference of the lint gate taken the wrong way round.
RemovedLintIds(corrected, original) ==
    Lint(original).violations \ Lint(corrected).violations

\* Gate 1 of the repair agent: the lint rule ids the corrected code adds.
AddedLintIds(corrected, original) ==
    Lint(corrected).violations \ Lint(original).violations

\* The tiered attempts list of RepairAgent.repair.
Attempts(shape) ==
    << "fast", "fast", IF shape = "tiered" THEN "escalated" ELSE "fast" >>

\* SessionManager.get_or_create, SessionManager.create: the session id used
\* (uuid4 is the fresh id "u1") and the store afterwards.
SessionIdFor(session_id, store) ==
    IF session_id # "" /\ session_id \in DOMAIN store THEN session_id
    ELSE IF session_id # "" THEN session_id ELSE "u1"

\* Fault variant: get_or_create that creates the session even when it exists.
GetOrCreateAlways(session_id, store) ==
    [sid \in DOMAIN store \cup {SessionIdFor(session_id, store)} |->
        IF sid = SessionIdFor(session_id, store)
        THEN [history |-> <<>>, current_code |-> NoCode]
        ELSE store[sid]]

GetOrCreate(session_id, store) ==
    IF session_id # "" /\ session_id \in DOMAIN store THEN store
    ELSE [sid \in DOMAIN store \cup {SessionIdFor(session_id, store)} |->
            IF sid = SessionIdFor(session_id, store)
            THEN [history |-> <<>>, current_code |-> NoCode]
            ELSE store[sid]]

\* Fault variant: store_turn that leaves current_code as it was.
StoreTurnStaleCode(store, sid, intent_, final_code) ==
    [store EXCEPT ![sid] =
        [history |-> Append(@.history,
                            [turn |-> Len(@.history) + 1, intent |-> intent_,
                             final_code |-> final_code]),
         current_code |-> @.current_code]]

\* SessionManager.store_turn on an existing session.
StoreTurn(store, sid, intent_, final_code) ==
    [store EXCEPT ![sid] =
        [history |-> Append(@.history,
                            [turn |-> Len(@.history) + 1, intent |-> intent_,
                             final_code |-> final_code]),
         current_code |-> final_code]]

\* ------------------------------------------------------------------ state
VARIABLES
    entry,                \* which entry point serves the request
    intent,               \* the request's intent text ("" is empty)
    pc,                   \* position of the request's coroutine
    intent_model,         \* ir.metadata.intent_model: "none" or "parsed"
    gen_attempt, lint_attempt, fix_attempt,
    code,                 \* the current draft
    previous_violations,
    last_error,
    lint_result,
    compile_success,
    error_obj,
    toll_gate,
    result,               \* the value returned to the caller
    attempt, violations,  \* the controller's retry loop
    session_id, sessions, \* the request's session id, the SessionManager store
    repair_provider,      \* shape of the provider the factory hands out
    original_code, attempt_idx, user_prompt,
    hist,                 \* observations of the run (calls made, how attempts ended)
    args, locals, ret     \* arguments, locals and return value of a function call

engineVars == <<intent_model, gen_attempt, lint_attempt, fix_attempt,
                previous_violations, last_error, lint_result, compile_success,
                error_obj>>
controllerVars == <<attempt, violations, session_id, sessions>>
repairVars == <<repair_provider, original_code, attempt_idx, user_prompt>>
pureVars == <<args, locals, ret>>
vars == <<entry, intent, pc, engineVars, code, toll_gate, result,
          controllerVars, repairVars, hist, pureVars>>

NoArgs   == [none |-> TRUE]
NoLocals == [none |-> TRUE]
NoRet    == [none |-> TRUE]

NoLint == [passed |-> FALSE, violations |-> {}, none |-> TRUE]
NoToll == [passed |-> FALSE, violations |-> {}]

HistInit ==
    [oracle_called   |-> FALSE,    \* an oracle (LLM) call was issued
     draft_calls     |-> 0,        \* draft calls (step 2A) issued
     last_failed_raw |-> "none",   \* raw error of the latest failed compile
     attempt_end     |-> "none",   \* how the latest finished attempt ended
     end_violations  |-> {},       \* the toll-gate violations of that attempt
     draft_arg       |-> NoViolations, \* violations= of the latest draft call
     draft_ctx       |-> {},       \* violation context that call built
     regen_ctx       |-> {},       \* violation context of the latest lint retry
     only_clean      |-> TRUE,     \* so far: every draft clean, every compile ok
     only_tollfail   |-> TRUE,     \* so far: every draft fails only the toll gate
     oracle_failed   |-> FALSE,    \* an oracle call raised (all configs exhausted)
     tiers_called    |-> <<>>]     \* the tiers the repair agent has called, in order

\* The clean contract of the convergence scenario, and the contract of the
\* bounded-failure scenario (one fixed toll-gate violation, all else clean).
CleanCode    == [guard |-> TRUE, lint |-> {}, toll |-> {}, sanity |-> TRUE]
IsTollFail(c) == c.guard /\ c.lint = {} /\ c.toll = {1}

\* A store a previous request left behind: session s1 with one stored turn.
OneTurnStore ==
    [sid \in {"s1"} |->
        [history |-> << [turn |-> 1, intent |-> "escrow", final_code |-> CleanCode] >>,
         current_code |-> CleanCode]]

Init ==
    /\ entry \in {"generate_guarded", "generate", "repair"}
    /\ intent \in (IF entry = "repair" THEN {"escrow"} ELSE {"", "escrow"})
    /\ pc = entry
    /\ attempt = 0
    /\ violations = NoViolations
    /\ session_id \in (IF entry = "generate" THEN {"", "s1"} ELSE {""})
    /\ sessions \in (IF entry = "generate" THEN {NoSessions, OneTurnStore}
                     ELSE {NoSessions})
    /\ repair_provider \in (IF entry = "repair" THEN ProviderShapes
                            ELSE {"configs_only"})
    /\ original_code \in (IF entry = "repair" THEN RepairCodes ELSE {NoCode})
    /\ attempt_idx = 0
    /\ user_prompt = {}
    /\ intent_model = "none"
    /\ gen_attempt = 0 /\ lint_attempt = 0 /\ fix_attempt = 0
    /\ code = NoCode
    /\ previous_violations = NoViolations
    /\ last_error = "None"
    /\ lint_result = NoLint
    /\ compile_success = FALSE
    /\ error_obj = NoError
    /\ toll_gate = NoToll
    /\ result = NoResult
    /\ hist = HistInit
    /\ args = NoArgs /\ locals = NoLocals /\ ret = NoRet

\* An oracle call raises (ResilientProvider.complete: every configuration
\* failed): the exception leaves the coroutine.
Raised(h) == [h EXCEPT !.oracle_called = TRUE, !.oracle_failed = TRUE]

\* A generation attempt ended in failure `how`.
Ended(h, how, tollv) == [h EXCEPT !.attempt_end = how, !.end_violations = tollv]

\* The observation of a draft call lasts until the draft is consumed by the
\* language guard.
DraftConsumed(h) == [h EXCEPT !.attempt_end = "none", !.end_violations = {},
                              !.draft_arg = NoViolations, !.draft_ctx = {}]

\* `continue` of the generation loop: the next attempt, with the given context.
\* The locals code, lint_result, error_obj and toll_gate are dead at the loop
\* head (each is assigned again before it is read), so they are reset here.
ContinueGeneration(pv) ==
    /\ gen_attempt' = gen_attempt + 1
    /\ previous_violations' = pv
    /\ pc' = "phase2_drafting"
    /\ code' = NoCode
    /\ lint_result' = NoLint
    /\ error_obj' = NoError
    /\ toll_gate' = NoToll

\* ------------------------------------------------------- generate_guarded
\* PHASE 1: Phase1.run, then the intent_model check.
EnginePhase1 ==
    /\ UNCHANGED pureVars
    /\ UNCHANGED <<controllerVars, repairVars>>
    /\ entry = "generate_guarded" /\ pc = "generate_guarded"
    /\ UNCHANGED <<entry, intent, gen_attempt, lint_attempt, fix_attempt, code,
                   previous_violations, last_error, lint_result, compile_success,
                   error_obj, toll_gate>>
    /\ \/ /\ pc' = "raised"
          /\ hist' = Raised(hist)
          /\ UNCHANGED <<intent_model, result>>
       \/ /\ intent_model' = "parsed"
          /\ pc' = "phase2_drafting"
          /\ hist' = [hist EXCEPT !.oracle_called = TRUE]
          /\ UNCHANGED result
       \/ /\ intent_model' = "none"      \* unparseable answer: IR without a model
          /\ pc' = "returned"
          /\ result' = ErrorResult("intent_parse_failed")
          /\ hist' = [hist EXCEPT !.oracle_called = TRUE]

\* Step 2A: the draft call of a generation attempt.
EngineDraft ==
    /\ UNCHANGED pureVars
    /\ UNCHANGED <<controllerVars, repairVars>>
    /\ entry = "generate_guarded" /\ pc = "phase2_drafting"
    /\ InGenerationLoop(gen_attempt)
    /\ UNCHANGED <<entry, intent, engineVars, toll_gate, result>>
    /\ \/ /\ pc' = "raised"
          /\ hist' = Raised(hist)
          /\ UNCHANGED code
       \/ \E c \in Codes :
            /\ code' = c
            /\ pc' = "phase2_guard"
            /\ hist' = [hist EXCEPT
                 !.oracle_called = TRUE,
                 !.draft_calls = @ + 1,
                 !.draft_arg = previous_violations,
                 !.draft_ctx = ViolationContext(previous_violations, gen_attempt),
                 !.only_clean = @ /\ c = CleanCode,
                 !.only_tollfail = @ /\ IsTollFail(c)]

\* The fallback after the loop: every attempt used up.
EngineExhausted ==
    /\ UNCHANGED pureVars
    /\ UNCHANGED <<controllerVars, repairVars>>
    /\ entry = "generate_guarded" /\ pc = "phase2_drafting"
    /\ ~InGenerationLoop(gen_attempt)
    /\ result' = ExhaustedResult(last_error)
    /\ pc' = "returned"
    /\ UNCHANGED <<entry, intent, engineVars, code, toll_gate, hist>>

\* Step 2B: the language guard.
EngineGuard ==
    /\ UNCHANGED pureVars
    /\ UNCHANGED <<controllerVars, repairVars>>
    /\ entry = "generate_guarded" /\ pc = "phase2_guard"
    /\ UNCHANGED <<entry, intent, intent_model, fix_attempt, last_error,
                   compile_success, result>>
    /\ IF guard_failure(code)
       THEN /\ ContinueGeneration(ClearViolations(previous_violations))
            /\ hist' = Ended(DraftConsumed(hist), "guard", {})
            /\ UNCHANGED lint_attempt
       ELSE /\ pc' = "phase2_linting"
            /\ lint_attempt' = 0
            /\ hist' = DraftConsumed(hist)
            /\ UNCHANGED <<gen_attempt, previous_violations, code, lint_result,
                           error_obj, toll_gate>>

\* Step 2B.5: one pass of the lint loop.
EngineLint ==
    /\ UNCHANGED pureVars
    /\ UNCHANGED <<controllerVars, repairVars>>
    /\ entry = "generate_guarded" /\ pc = "phase2_linting"
    /\ UNCHANGED <<entry, intent, intent_model, lint_attempt, result>>
    /\ IF Lint(code).passed
       THEN \* break; the compile gate starts: compile_success, last_error reset
            /\ lint_result' = Lint(code)
            /\ pc' = "phase2_compiling"
            /\ fix_attempt' = 0
            /\ compile_success' = FALSE
            /\ last_error' = ""
            /\ UNCHANGED <<gen_attempt, previous_violations, code, error_obj,
                           toll_gate, hist>>
       ELSE IF lint_attempt < max_lint_retries - 1
       THEN /\ lint_result' = Lint(code)
            /\ pc' = "phase2_lint_fail"
            /\ UNCHANGED <<gen_attempt, previous_violations, fix_attempt,
                           compile_success, last_error, code, error_obj,
                           toll_gate, hist>>
       ELSE \* lint loop exhausted: full regeneration
            /\ ContinueGeneration(ClearViolations(previous_violations))
            /\ hist' = Ended(hist, "lint", {})
            /\ UNCHANGED <<fix_attempt, compile_success, last_error>>

\* The lint retry: Phase2.run with the lint violations, same retry_count.
EngineLintRegen ==
    /\ UNCHANGED pureVars
    /\ UNCHANGED <<controllerVars, repairVars>>
    /\ entry = "generate_guarded" /\ pc = "phase2_lint_fail"
    /\ UNCHANGED <<entry, intent, intent_model, gen_attempt, fix_attempt,
                   previous_violations, last_error, lint_result, compile_success,
                   error_obj, toll_gate, result>>
    /\ \/ /\ pc' = "raised"
          /\ hist' = Raised(hist)
          /\ UNCHANGED <<code, lint_attempt>>
       \/ \E c \in Codes :
            /\ code' = c
            /\ lint_attempt' = lint_attempt + 1
            /\ pc' = "phase2_linting"
            /\ hist' = [hist EXCEPT
                 !.oracle_called = TRUE,
                 !.regen_ctx = ViolationContext(Violations(lint_result.violations),
                                                gen_attempt),
                 !.only_clean = @ /\ c = CleanCode,
                 !.only_tollfail = @ /\ IsTollFail(c)]

\* Step 2C: one compiler call of the fix loop.
EngineCompile ==
    /\ UNCHANGED pureVars
    /\ UNCHANGED <<controllerVars, repairVars>>
    /\ entry = "generate_guarded" /\ pc = "phase2_compiling"
    /\ UNCHANGED <<entry, intent, intent_model, gen_attempt, lint_attempt,
                   fix_attempt, code, previous_violations, lint_result, toll_gate,
                   result>>
    /\ \/ /\ compile_success' = TRUE
          /\ pc' = "phase3_validation"
          /\ UNCHANGED <<last_error, error_obj, hist>>
       \/ \E e \in ErrorObjs :
            /\ error_obj' = e
            /\ last_error' = e.raw
            /\ pc' = "phase2_compile_fix"
            /\ hist' = [hist EXCEPT !.last_failed_raw = e.raw,
                                    !.only_clean = FALSE, !.only_tollfail = FALSE]
            /\ UNCHANGED compile_success

\* _request_syntax_fix, then the end of the fix loop's pass.  The fix is a
\* deterministic pattern rewrite or, when none applies (which depends on the
\* error's token and on the source text), the oracle's answer: either way some
\* source, and the oracle call can raise.  The fix is requested after every
\* failed compile; the one requested after the last allowed compile is dropped.
\* error_obj is dead once the fix has been requested (the next failed compile
\* assigns it again).
EngineFix ==
    /\ UNCHANGED pureVars
    /\ UNCHANGED <<controllerVars, repairVars>>
    /\ entry = "generate_guarded" /\ pc = "phase2_compile_fix"
    /\ UNCHANGED <<entry, intent, intent_model, lint_attempt, last_error,
                   compile_success, result>>
    /\ \/ /\ pc' = "raised"
          /\ hist' = Raised(hist)
          /\ UNCHANGED <<code, fix_attempt, gen_attempt, previous_violations,
                         lint_result, error_obj, toll_gate>>
       \/ /\ fix_attempt + 1 < max_fix_retries
          /\ \E c \in Codes : code' = c
          /\ fix_attempt' = fix_attempt + 1
          /\ pc' = "phase2_compiling"
          /\ error_obj' = NoError
          /\ UNCHANGED <<gen_attempt, previous_violations, lint_result,
                         toll_gate, hist>>
       \/ \* compile loop exhausted: full regeneration
          /\ fix_attempt + 1 >= max_fix_retries
          /\ fix_attempt' = fix_attempt + 1
          /\ ContinueGeneration(ClearViolations(previous_violations))
          /\ hist' = Ended(hist, "compile", {})

\* PHASE 3: the toll gate.
EngineTollGate ==
    /\ UNCHANGED pureVars
    /\ UNCHANGED <<controllerVars, repairVars>>
    /\ entry = "generate_guarded" /\ pc = "phase3_validation"
    /\ UNCHANGED <<entry, intent, intent_model, lint_attempt, fix_attempt,
                   last_error, compile_success, result>>
    /\ IF ~Phase3Validate(code).passed
       THEN /\ ContinueGeneration(CarryTollViolations(Phase3Validate(code)))
            /\ hist' = Ended(hist, "toll", Phase3Validate(code).violations)
       ELSE /\ toll_gate' = Phase3Validate(code)
            /\ pc' = "phase4_sanity"
            /\ UNCHANGED <<gen_attempt, previous_violations, code, lint_result,
                           error_obj, hist>>

\* PHASE 4: the sanity check, and the success return.
EngineSanity ==
    /\ UNCHANGED pureVars
    /\ UNCHANGED <<controllerVars, repairVars>>
    /\ entry = "generate_guarded" /\ pc = "phase4_sanity"
    /\ UNCHANGED <<entry, intent, intent_model, lint_attempt, fix_attempt,
                   last_error, compile_success>>
    /\ IF ~SanityValidate(code).success
       THEN /\ ContinueGeneration(ClearViolations(previous_violations))
            /\ hist' = Ended(hist, "sanity", {})
            /\ UNCHANGED result
       ELSE /\ result' = SuccessResult(code, toll_gate, SanityValidate(code))
            /\ pc' = "returned"
            /\ UNCHANGED <<gen_attempt, previous_violations, code, lint_result,
                           error_obj, toll_gate, hist>>

\* ------------------------------------------- GenerationController.generate
\* Fault variant: the controller without its intent check.
GenerateStartUnchecked ==
    /\ UNCHANGED pureVars
    /\ entry = "generate" /\ pc = "generate"
    /\ UNCHANGED <<entry, intent, engineVars, code, toll_gate, attempt, violations,
                   session_id, repairVars, hist, result>>
    /\ sessions' = GetOrCreate(session_id, sessions)
    /\ pc' = "phase1"

\* The intent check and get_or_create.
GenerateStart ==
    /\ UNCHANGED pureVars
    /\ entry = "generate" /\ pc = "generate"
    /\ UNCHANGED <<entry, intent, engineVars, code, toll_gate, attempt, violations,
                   session_id, repairVars, hist>>
    /\ IF intent = ""
       THEN /\ result' = ControllerError("MISSING_INTENT", {})
            /\ pc' = "returned"
            /\ UNCHANGED sessions
       ELSE /\ sessions' = GetOrCreate(session_id, sessions)
            /\ pc' = "phase1"
            /\ UNCHANGED result

\* Phase 1 inside its try/except.
GeneratePhase1 ==
    /\ UNCHANGED pureVars
    /\ entry = "generate" /\ pc = "phase1"
    /\ UNCHANGED <<entry, intent, engineVars, code, session_id, sessions, repairVars>>
    /\ \/ /\ result' = ControllerError("PHASE1_FAILED", {})
          /\ pc' = "returned"
          /\ hist' = Raised(hist)
          /\ UNCHANGED <<attempt, violations, toll_gate>>
       \/ /\ attempt' = 0
          /\ violations' = NoViolations
          /\ toll_gate' = NoToll
          /\ pc' = "phase2"
          /\ hist' = [hist EXCEPT !.oracle_called = TRUE]
          /\ UNCHANGED result

\* One pass of the retry loop: Phase 2 inside its try/except, then Phase 3.
GeneratePhase2 ==
    /\ UNCHANGED pureVars
    /\ entry = "generate" /\ pc = "phase2"
    /\ attempt < MAX_RETRIES
    /\ UNCHANGED <<entry, intent, engineVars, session_id, sessions, repairVars>>
    /\ \/ /\ hist' = Raised(hist)
          /\ IF attempt = MAX_RETRIES - 1
             THEN /\ result' = ControllerError("PHASE2_FAILED", {})
                  /\ pc' = "returned"
                  /\ UNCHANGED attempt
             ELSE /\ attempt' = attempt + 1
                  /\ UNCHANGED <<pc, result>>
          /\ UNCHANGED <<code, toll_gate, violations>>
       \/ \E c \in Codes :
            /\ code' = c
            /\ toll_gate' = Phase3Validate(c)
            /\ hist' = [hist EXCEPT
                 !.oracle_called = TRUE,
                 !.draft_arg = violations,
                 !.draft_ctx = ViolationContext(violations, attempt)]
            /\ IF Phase3Validate(c).passed
               THEN /\ pc' = "final"
                    /\ UNCHANGED <<attempt, violations>>
               ELSE /\ violations' = Violations(Phase3Validate(c).violations)
                    /\ attempt' = attempt + 1
                    /\ UNCHANGED pc
            /\ UNCHANGED result

\* After the loop: the toll-gate error, or store_turn and the success result.
GenerateFinal ==
    /\ UNCHANGED pureVars
    /\ entry = "generate"
    /\ pc = "final" \/ (pc = "phase2" /\ attempt >= MAX_RETRIES)
    /\ UNCHANGED <<entry, intent, engineVars, code, toll_gate, attempt, violations,
                   session_id, repairVars, hist>>
    /\ IF ~toll_gate.passed
       THEN /\ result' = ControllerError("TOLL_GATE_FAILED", toll_gate.violations)
            /\ pc' = "returned"
            /\ UNCHANGED sessions
       ELSE IF SessionIdFor(session_id, sessions) \notin DOMAIN sessions
       THEN /\ pc' = "raised"          \* store_turn: ValueError
            /\ UNCHANGED <<result, sessions>>
       ELSE /\ sessions' = StoreTurn(sessions, SessionIdFor(session_id, sessions),
                                     intent, code)
            /\ result' = ControllerSuccess(code, SessionIdFor(session_id, sessions))
            /\ pc' = "returned"

\* ------------------------------------------------------ RepairAgent.repair
\* The baseline count and the provider lookup: reading .primary of a provider
\* that has no such attribute raises AttributeError.
RepairStart ==
    /\ UNCHANGED pureVars
    /\ entry = "repair" /\ pc = "repair"
    /\ UNCHANGED <<entry, intent, engineVars, code, toll_gate, result,
                   controllerVars, repairVars, hist>>
    /\ pc' = IF repair_provider = "configs_only" THEN "raised" ELSE "repair_attempt"

\* One pass of the attempts loop: _attempt_repair, then the deterministic
\* validation of what it returned.
RepairAttempt ==
    /\ UNCHANGED pureVars
    /\ entry = "repair" /\ pc = "repair_attempt"
    /\ attempt_idx < Len(Attempts(repair_provider))
    /\ UNCHANGED <<entry, intent, engineVars, code, toll_gate, controllerVars,
                   repair_provider, original_code>>
    /\ attempt_idx' = attempt_idx + 1
    /\ hist' = [hist EXCEPT
         !.oracle_called = TRUE,
         !.tiers_called = Append(@, Attempts(repair_provider)[attempt_idx + 1])]
    /\ \/ \* the provider raised, or answered nothing, or nothing but a fence
          UNCHANGED <<pc, result, user_prompt>>
       \/ \E c \in RepairCodes :
            IF AddedLintIds(c, original_code) # {}
            THEN \* rejected; the next attempt's prompt names the new violations
                 /\ user_prompt' = IF attempt_idx < Len(Attempts(repair_provider)) - 1
                                   THEN AddedLintIds(c, original_code)
                                   ELSE user_prompt
                 /\ UNCHANGED <<pc, result>>
            ELSE /\ result' = RepairResponse(c, TRUE)
                 /\ pc' = "returned"
                 /\ UNCHANGED user_prompt

\* All attempts failed: the original code, success = False.
RepairExhausted ==
    /\ UNCHANGED pureVars
    /\ entry = "repair" /\ pc = "repair_attempt"
    /\ attempt_idx >= Len(Attempts(repair_provider))
    /\ result' = RepairResponse(original_code, FALSE)
    /\ pc' = "returned"
    /\ UNCHANGED <<entry, intent, engineVars, code, toll_gate, controllerVars,
                   repairVars, hist>>

Next ==
    \/ EnginePhase1 \/ EngineDraft \/ EngineExhausted \/ EngineGuard
    \/ EngineLint \/ EngineLintRegen \/ EngineCompile \/ EngineFix
    \/ EngineTollGate \/ EngineSanity
    \/ GenerateStart \/ GeneratePhase1 \/ GeneratePhase2 \/ GenerateFinal
    \/ RepairStart \/ RepairAttempt \/ RepairExhausted

Spec == Init /\ [][Next]_vars

Terminated == pc \in {"returned", "raised"}

\* The request machines at rest: the state of every variable of generate_guarded,
\* generate and repair while a function of another module is being called.
RequestsIdle ==
    /\ intent = ""
    /\ attempt = 0
    /\ violations = NoViolations
    /\ session_id = ""
    /\ sessions = NoSessions
    /\ repair_provider = "configs_only"
    /\ original_code = NoCode
    /\ attempt_idx = 0
    /\ user_prompt = {}
    /\ intent_model = "none"
    /\ gen_attempt = 0 /\ lint_attempt = 0 /\ fix_attempt = 0
    /\ code = NoCode
    /\ previous_violations = NoViolations
    /\ last_error = "None"
    /\ lint_result = NoLint
    /\ compile_success = FALSE
    /\ error_obj = NoError
    /\ toll_gate = NoToll
    /\ result = NoResult

RequestsUnchanged ==
    UNCHANGED <<entry, intent, engineVars, code, toll_gate, result,
                controllerVars, repairVars>>

Max(a, b) == IF a >= b THEN a ELSE b
Min(a, b) == IF a <= b THEN a ELSE b

\* ------------------------------------------- scoring.calculate_audit_report
MaxRuleIds       == 4      \* distinct rule ids among the issues
MaxIssues        == 4      \* length of the issues list
MaxBizOvershoot  == 1      \* how far business_logic_score leaves 0..10

DET_MAX       == 70
DISPLAY_FLOOR == 20

Severities == {"CRITICAL", "HIGH", "MEDIUM", "LOW", "INFO"}
RuleIds    == 1..MaxRuleIds
AuditIssues == [rule_id : RuleIds, severity : Severities]

DET_PENALTIES(sev) ==
    CASE sev = "CRITICAL" -> 20
      [] sev = "HIGH"     -> 10
      [] sev = "MEDIUM"   -> 5
      [] sev = "LOW"      -> 2
      [] sev = "INFO"     -> 0
      [] OTHER            -> 0

ALLOWED_CATEGORIES ==
    {"none", "minor_design_risk", "moderate_logic_risk", "major_protocol_flaw",
     "funds_unspendable"}

SEMANTIC_CATEGORY_MAP(cat) ==
    CASE cat = "none"                -> 20
      [] cat = "minor_design_risk"   -> 15
      [] cat = "moderate_logic_risk" -> 10
      [] cat = "major_protocol_flaw" -> 5
      [] cat = "funds_unspendable"   -> 0

\* The semantic_category strings a caller passes: the five categories as they
\* are, two of them with other case and surrounding blanks, an unknown one and
\* the empty string.
RawCategories ==
    ALLOWED_CATEGORIES \cup
        {" Funds_Unspendable ", "MINOR_DESIGN_RISK", "deadlock", ""}

\* str.strip().lower() on those strings.
StripLower(raw) ==
    CASE raw = " Funds_Unspendable " -> "funds_unspendable"
      [] raw = "MINOR_DESIGN_RISK"   -> "minor_design_risk"
      [] OTHER                       -> raw

NormaliseCategory(raw) ==
    LET stripped == IF raw # "" THEN StripLower(raw) ELSE "none"
    IN  IF stripped \notin ALLOWED_CATEGORIES THEN "none" ELSE stripped

BusinessScores == (0 - MaxBizOvershoot)..(10 + MaxBizOvershoot)

\* unique_issues_map: rule id -> severity of the issue kept, or "absent".
EmptyIssuesMap == [r \in RuleIds |-> "absent"]

\* Fault variant: deduplication keeps the latest instance of a rule id.
DedupeKeepLatest(map, issue) == [map EXCEPT ![issue.rule_id] = issue.severity]

\* One pass of the deduplication loop.
DedupeStep(map, issue) ==
    IF map[issue.rule_id] = "absent"
    THEN [map EXCEPT ![issue.rule_id] = issue.severity]
    ELSE IF DET_PENALTIES(issue.severity) > DET_PENALTIES(map[issue.rule_id])
    THEN [map EXCEPT ![issue.rule_id] = issue.severity]
    ELSE map

RECURSIVE SumPenalties(_, _)
SumPenalties(map, rules) ==
    IF rules = {} THEN 0
    ELSE LET r == CHOOSE x \in rules : TRUE
         IN  DET_PENALTIES(map[r]) + SumPenalties(map, rules \ {r})

\* sum(DET_PENALTIES.get(i.severity, 0) for i in deduped_issues)
TotalDeductions(map) ==
    SumPenalties(map, {r \in DOMAIN map : map[r] # "absent"})

DetScore(map, compile_ok) ==
    IF ~compile_ok THEN 0 ELSE Max(0, DET_MAX - TotalDeductions(map))

\* Fault variant: the funds_unspendable override is missing.
SemanticScoreNoOverride(category, business_logic_score) ==
    Min(30, (IF category = "funds_unspendable" THEN 0
             ELSE SEMANTIC_CATEGORY_MAP(category))
            + Max(0, Min(10, business_logic_score)))

SemanticScore(category, business_logic_score) ==
    IF category = "funds_unspendable" THEN 0
    ELSE Min(30, SEMANTIC_CATEGORY_MAP(category)
                 + Max(0, Min(10, business_logic_score)))

DisplayScore(total_score) == Max(DISPLAY_FLOOR, total_score)

\* Fault variant: the deterministic threshold taken strictly.
DeploymentAllowedStrict(det_score, semantic_score, display_score) ==
    det_score > 50 /\ semantic_score > 0 /\ display_score >= 75

DeploymentAllowed(det_score, semantic_score, display_score) ==
    det_score >= 50 /\ semantic_score > 0 /\ display_score >= 75

\* Severity order, used to observe the highest-severity instance of a rule id.
SeverityRank(sev) ==
    CASE sev = "CRITICAL" -> 5
      [] sev = "HIGH"     -> 4
      [] sev = "MEDIUM"   -> 3
      [] sev = "LOW"      -> 2
      [] sev = "INFO"     -> 1
      [] OTHER            -> 0

ScoringHistInit ==
    [worst     |-> [r \in RuleIds |-> "absent"],  \* highest severity seen per rule id
     repeated  |-> FALSE]                         \* some rule id came more than once

InitScoring ==
    /\ entry = "calculate_audit_report"
    /\ pc = "dedupe"
    /\ RequestsIdle
    /\ args = [issues_read |-> 0]
    /\ locals = [unique_issues_map |-> EmptyIssuesMap]
    /\ ret = NoRet
    /\ hist = ScoringHistInit

\* for issue in issues: one more issue of the list.
ScoreDedupe ==
    /\ entry = "calculate_audit_report" /\ pc = "dedupe"
    /\ args.issues_read < MaxIssues
    /\ RequestsUnchanged
    /\ \E issue \in AuditIssues :
         /\ args' = [args EXCEPT !.issues_read = @ + 1]
         /\ locals' = [locals EXCEPT
              !.unique_issues_map = DedupeStep(@, issue)]
         /\ hist' = [hist EXCEPT
              !.worst[issue.rule_id] =
                  IF SeverityRank(issue.severity) > SeverityRank(@)
                  THEN issue.severity ELSE @,
              !.repeated = @ \/ hist.worst[issue.rule_id] # "absent"]
    /\ UNCHANGED <<pc, ret>>

\* The list is exhausted: the deterministic score.
ScoreDeterministic ==
    /\ entry = "calculate_audit_report" /\ pc = "dedupe"
    /\ RequestsUnchanged
    /\ \E compile_ok \in BOOLEAN :
         /\ args' = [issues_read |-> args.issues_read, compile_success |-> compile_ok]
         /\ locals' = [unique_issues_map |-> locals.unique_issues_map,
                       det_score |-> DetScore(locals.unique_issues_map, compile_ok)]
    /\ pc' = "semantic"
    /\ UNCHANGED <<ret, hist>>

\* The semantic score, the display score, the deployment gate and the report
\* (of which the scores, the category and the gate are kept).
ScoreReport ==
    /\ entry = "calculate_audit_report" /\ pc = "semantic"
    /\ RequestsUnchanged
    /\ \E raw \in RawCategories, biz \in BusinessScores :
         LET normalised_category == NormaliseCategory(raw)
             semantic_score == SemanticScore(normalised_category, biz)
             total_score    == locals.det_score + semantic_score
             display_score  == DisplayScore(total_score)
         IN  /\ args' = [compile_success |-> args.compile_success,
                         semantic_category |-> raw,
                         business_logic_score |-> biz]
             /\ ret' = [deterministic_score |-> locals.det_score,
                        semantic_score      |-> semantic_score,
                        total_score         |-> display_score,
                        semantic_category   |-> normalised_category,
                        deployment_allowed  |->
                            DeploymentAllowed(locals.det_score, semantic_score,
                                              display_score)]
    /\ locals' = NoLocals
    /\ hist' = [repeated |-> hist.repeated]
    /\ pc' = "returned"

NextScoring == ScoreDedupe \/ ScoreDeterministic \/ ScoreReport

SpecScoring == InitScoring /\ [][NextScoring]_vars


\* ------------- anti_pattern_enforcer.validate_code and pipeline.Phase3.validate
MaxFiring == 2     \* detectors of one run, besides the two position detectors,
                   \* that report a violation or raise

\* anti_pattern_detectors.DETECTOR_REGISTRY with the rule each detector reports.
DETECTOR_REGISTRY ==
    << [detector |-> "ImplicitOutputOrderingDetector", rule |-> "implicit_output_ordering.cash"],
       [detector |-> "MissingOutputLimitDetector",     rule |-> "missing_output_limit.cash"],
       [detector |-> "UnvalidatedPositionDetector",    rule |-> "unvalidated_position.cash"],
       [detector |-> "FeeAssumptionViolationDetector", rule |-> "fee_assumption_violation.cash"],
       [detector |-> "DivisionByZeroDetector",         rule |-> "division_by_zero.cash"],
       [detector |-> "TokenPairValidationDetector",    rule |-> "missing_token_amount_validation.cash"],
       [detector |-> "CovenantContinuationDetector",   rule |-> "vulnerable_covenant.cash"],
       [detector |-> "TimeOperatorViolationDetector",  rule |-> "time_validation_error.cash"],
       [detector |-> "HardcodedInputIndexDetector",    rule |-> "unvalidated_position.cash"],
       [detector |-> "EVMHallucinationDetector",       rule |-> "evm_hallucination"],
       [detector |-> "EmptyFunctionDetector",          rule |-> "empty_function_body"],
       [detector |-> "SemanticTypeValidationDetector", rule |-> "semantic_type_mismatch"],
       [detector |-> "MultisigDistinctnessDetector",   rule |-> "multisig_distinctness_flaw"],
       [detector |-> "SpendingPathSecurityDetector",   rule |-> "missing_value_enforcement"],
       [detector |-> "WeakOutputLimitDetector",        rule |-> "weak_output_count_limit"],
       [detector |-> "EscrowRoleEnforcementDetector",  rule |-> "missing_output_anchor"],
       [detector |-> "TautologicalGuardDetector",      rule |-> "tautological_guard"],
       [detector |-> "InvalidLockingBytecodeSelfComparisonDetector",
                                                       rule |-> "locking_bytecode_self_comparison"],
       [detector |-> "MultisigSignatureReuseDetector", rule |-> "multisig_signature_reuse"] >>

total_detectors == Len(DETECTOR_REGISTRY)
Detectors == 1..total_detectors

DetectorIndex(name) == CHOOSE i \in Detectors : DETECTOR_REGISTRY[i].detector = name

\* What detector.detect(ast) does: returns None, returns a Violation, raises.
DetectOutcomes == {"none", "violation", "raises"}

\* UnvalidatedPositionDetector.detect on the facts of the source.
UnvalidatedPositionDetector(src) ==
    IF ~src.validates_input_position THEN "violation" ELSE "none"

\* HardcodedInputIndexDetector.detect on the facts of the source.
HardcodedInputIndexDetector(src) ==
    IF src.literal_input_index /\ ~src.validates_input_position
    THEN "violation" ELSE "none"

\* The outcomes detector i can have on a source: the two position detectors are
\* computed from the facts of the source, the others are left open; each of
\* them may also fail with an internal error.
DetectorOutcomes(i, src) ==
    IF i = DetectorIndex("UnvalidatedPositionDetector")
    THEN {UnvalidatedPositionDetector(src), "raises"}
    ELSE IF i = DetectorIndex("HardcodedInputIndexDetector")
    THEN {HardcodedInputIndexDetector(src), "raises"}
    ELSE DetectOutcomes

PositionDetectors ==
    {DetectorIndex("UnvalidatedPositionDetector"),
     DetectorIndex("HardcodedInputIndexDetector")}

\* violation.to_dict(), of which the rule and the reporting detector are kept.
ViolationDict(i) == [rule |-> DETECTOR_REGISTRY[i].rule, by |-> i]

ParseErrorViolation == [rule |-> "parse_error", by |-> 0]

\* Fault variant: an internal error of a detector is recorded as a violation.
DetectStepRecordsFailure(vs, i, outcome) ==
    IF outcome # "none" THEN Append(vs, ViolationDict(i)) ELSE vs

\* One pass of the detector loop: try detect, append the violation if there is
\* one, catch and log an exception.
DetectStep(vs, i, outcome) ==
    IF outcome = "violation" THEN Append(vs, ViolationDict(i)) ELSE vs

\* {v.rule for v in violations}
RuleSet(vs) == {vs[k].rule : k \in 1..Len(vs)}

\* The structural score, a fraction kept as numerator and denominator.
StructuralScore(vs) ==
    IF total_detectors > 0
    THEN [num |-> total_detectors - Cardinality(RuleSet(vs)), den |-> total_detectors]
    ELSE [num |-> 0, den |-> 1]

\* TollGateResult of Phase3.validate.
TollGateResult(vs) ==
    [passed |-> Len(vs) = 0, violations |-> vs,
     structural_score |-> StructuralScore(vs)]

SourceFacts ==
    [parses : BOOLEAN, validates_input_position : BOOLEAN,
     literal_input_index : BOOLEAN]

AnalysisHistInit == [fired |-> {}, raised |-> {}, ran |-> {}]

InitPhase3 ==
    /\ entry = "Phase3.validate"
    /\ pc = "parse"
    /\ RequestsIdle
    /\ args \in SourceFacts
    /\ locals = [violations |-> << >>, i |-> 1]
    /\ ret = NoRet
    /\ hist = AnalysisHistInit

\* ast = CashScriptAST(code) fails: validate_code returns the parse_error
\* violation alone.
EnforcerParseError ==
    /\ entry = "Phase3.validate" /\ pc = "parse"
    /\ ~args.parses
    /\ RequestsUnchanged
    /\ locals' = [violations |-> <<ParseErrorViolation>>, i |-> 1]
    /\ pc' = "score"
    /\ UNCHANGED <<args, ret, hist>>

\* ast = CashScriptAST(code) succeeds.
EnforcerParse ==
    /\ entry = "Phase3.validate" /\ pc = "parse"
    /\ args.parses
    /\ RequestsUnchanged
    /\ pc' = "detect"
    /\ UNCHANGED <<args, locals, ret, hist>>

\* for detector in self.detectors: one more detector of the registry.
EnforcerDetect ==
    /\ entry = "Phase3.validate" /\ pc = "detect"
    /\ locals.i <= total_detectors
    /\ RequestsUnchanged
    /\ \E outcome \in DetectorOutcomes(locals.i, args) :
         /\ (outcome # "none" /\ locals.i \notin PositionDetectors) =>
               Cardinality((hist.fired \cup hist.raised) \ PositionDetectors)
                   < MaxFiring
         /\ locals' = [violations |-> DetectStep(locals.violations, locals.i, outcome),
                       i |-> locals.i + 1]
         /\ hist' = [fired  |-> IF outcome = "violation"
                                THEN hist.fired \cup {locals.i} ELSE hist.fired,
                     raised |-> IF outcome = "raises"
                                THEN hist.raised \cup {locals.i} ELSE hist.raised,
                     ran    |-> hist.ran \cup {locals.i}]
    /\ UNCHANGED <<pc, args, ret>>

\* The registry is exhausted: validate_code returns its violations.
EnforcerReturn ==
    /\ entry = "Phase3.validate" /\ pc = "detect"
    /\ locals.i > total_detectors
    /\ RequestsUnchanged
    /\ pc' = "score"
    /\ UNCHANGED <<args, locals, ret, hist>>

\* Phase3.validate copies the violations, counts the failed rules and returns
\* the TollGateResult.
Phase3Return ==
    /\ entry = "Phase3.validate" /\ pc = "score"
    /\ RequestsUnchanged
    /\ ret' = TollGateResult(locals.violations)
    /\ locals' = NoLocals
    /\ pc' = "returned"
    /\ UNCHANGED <<args, hist>>

\* --------------------------------------------------------- dsl_lint.DSLLinter
MaxFunctions == 2   \* functions of a contract given to _check_covenant_self_anchor

\* DSLLinter.RULES with the rule id each function reports.
RULES ==
    << [fn |-> "_check_hardcoded_input_index",    rule_id |-> "LNC-001"],
       [fn |-> "_check_unused_variables",         rule_id |-> "LNC-002"],
       [fn |-> "_check_value_anchoring",          rule_id |-> "LNC-003"],
       [fn |-> "_check_implicit_output_ordering", rule_id |-> "LNC-004"],
       [fn |-> "_check_fee_arithmetic",           rule_id |-> "LNC-005"],
       [fn |-> "_check_wrong_self_reference",     rule_id |-> "LNC-006"],
       [fn |-> "_check_deprecated_patterns",      rule_id |-> "LNC-007"],
       [fn |-> "_check_timelock_standalone",      rule_id |-> "LNC-010"],
       [fn |-> "_check_division_guard",           rule_id |-> "LNC-011"],
       [fn |-> "_check_frozen_state",             rule_id |-> "LNC-012"],
       [fn |-> "_check_covenant_self_anchor",     rule_id |-> "LNC-008"],
       [fn |-> "_check_mint_authority",           rule_id |-> "LNC-013"],
       [fn |-> "_check_token_pair_completeness",  rule_id |-> "LNC-014"],
       [fn |-> "_check_forbidden_syntax",         rule_id |-> "LNC-009"] >>

LintRules == 1..Len(RULES)
RuleIndex(fn) == CHOOSE i \in LintRules : RULES[i].fn = fn

\* The contract_mode strings a caller passes: the modes the rules name, one of
\* them with other case and surrounding blanks, the empty string and a mode no
\* rule knows.
ContractModes ==
    {"distribution", "payout", "split", "burn",
     "multisig", "multisig_simple_spend", "p2pkh", "stateless", "timelock",
     "escrow", "",
     "vesting", "stateful", "covenant", "vault", "token", "minting",
     " Vesting ", "dao"}

\* (contract_mode or "").lower().strip() on those strings.
LowerStrip(contract_mode) ==
    IF contract_mode = " Vesting " THEN "vesting" ELSE contract_mode

FORBID_MODES  == {"distribution", "payout", "split", "burn"}
SKIP_MODES    == {"multisig", "multisig_simple_spend", "p2pkh", "stateless",
                  "timelock", "escrow", ""}
REQUIRE_MODES == {"vesting", "stateful", "covenant", "vault", "token", "minting"}

\* What the regular expressions of LNC-008 find in one function.
FunctionFacts ==
    {f \in [is_burn_func : BOOLEAN, touches_outputs : BOOLEAN,
            touches_tokens : BOOLEAN, has_self_anchor : BOOLEAN,
            has_input_self_anchor : BOOLEAN] :
        \* tx.outputs[..].lockingBytecode == this.activeBytecode holds tx.outputs
        f.has_self_anchor => f.touches_outputs}

\* A function with these facts can stand in a source with these facts: an
\* anchor holds this.activeBytecode, a token field in a body is one in the code.
FunctionFits(f, has_self_ref, has_token_refs) ==
    /\ (f.has_self_anchor \/ f.has_input_self_anchor) => has_self_ref
    /\ f.touches_tokens => has_token_refs

\* A finding of a lint rule; at is the function or the occurrence it is about
\* (0 for the whole contract).
Finding(rule_id, at) == [rule_id |-> rule_id, at |-> at]

\* The gate of _check_covenant_self_anchor before its loop over the functions:
\* the result it returns at once, or "loop".
SelfAnchorGate(mode, has_self_ref, has_token_refs) ==
    IF mode \in FORBID_MODES
    THEN IF has_self_ref THEN "forbidden" ELSE "none"
    ELSE IF mode \in SKIP_MODES THEN "none"
    ELSE IF mode \notin REQUIRE_MODES /\ ~(has_token_refs \/ has_self_ref)
    THEN "none"
    ELSE "loop"

\* Fault variant: only functions that touch a token field are checked.
LacksSelfAnchorTokensOnly(mode, f) ==
    /\ ~(mode = "token" /\ f.is_burn_func)
    /\ f.touches_tokens
    /\ ~(f.has_self_anchor \/ f.has_input_self_anchor)

\* One pass of the loop over the functions: the function gets a violation.
LacksSelfAnchor(mode, f) ==
    /\ ~(mode = "token" /\ f.is_burn_func)
    /\ f.touches_outputs \/ f.touches_tokens
    /\ ~(f.has_self_anchor \/ f.has_input_self_anchor)

RECURSIVE SelfAnchorLoop(_, _, _)
SelfAnchorLoop(mode, functions, k) ==
    IF k > Len(functions) THEN << >>
    ELSE (IF LacksSelfAnchor(mode, functions[k])
          THEN <<Finding("LNC-008", k)>> ELSE << >>)
         \o SelfAnchorLoop(mode, functions, k + 1)

\* _check_covenant_self_anchor(code, contract_mode) on the facts of the source.
check_covenant_self_anchor(src, contract_mode) ==
    LET mode == LowerStrip(contract_mode)
        gate == SelfAnchorGate(mode, src.has_self_ref, src.has_token_refs)
    IN  CASE gate = "forbidden" -> <<Finding("LNC-008", 0)>>
          [] gate = "none"      -> << >>
          [] OTHER              -> SelfAnchorLoop(mode, src.functions, 1)

\* _check_frozen_state(code, contract_mode) on the facts of the source.
check_frozen_state(src, contract_mode) ==
    LET mode == LowerStrip(contract_mode)
    IN  IF mode \notin {"stateful", "vesting"} THEN << >>
        ELSE IF ~src.has_self_ref THEN << >>
        ELSE IF src.has_new_bytecode THEN << >>
        ELSE <<[rule_id |-> "LNC-012", at |-> 0, severity |-> "warning"]>>

\* What rule_fn(code) does for the rules left open: returns no finding, returns
\* a list of two, or raises.
RuleOutcomes == {"none", "two", "raises"}

OpenFindings(i, outcome) ==
    IF outcome = "two"
    THEN <<Finding(RULES[i].rule_id, 1), Finding(RULES[i].rule_id, 2)>>
    ELSE << >>

ModeRules == {RuleIndex("_check_frozen_state"), RuleIndex("_check_covenant_self_anchor")}

\* The sources and modes the whole linter is run on: contracts of one function
\* that is not named burn and touches no token field.
LintSources ==
    {s \in [has_self_ref : BOOLEAN, has_new_bytecode : BOOLEAN,
            has_token_refs : {FALSE},
            functions : {<<f>> : f \in {g \in FunctionFacts :
                            ~g.is_burn_func /\ ~g.touches_tokens
                            /\ ~g.has_input_self_anchor}}] :
        FunctionFits(s.functions[1], s.has_self_ref, s.has_token_refs)}

LintModes == {"stateful", "vesting", "multisig", "distribution"}

EmptyCodeResult ==
    [passed |-> FALSE, violations |-> <<Finding("LNC-000", 0)>>]

\* The dictionary lint returns after its loop.
LintResult(all_violations) ==
    [passed |-> Len(all_violations) = 0, violations |-> all_violations]

LintHistInit ==
    [fired |-> {}, raised |-> {}, ran |-> {},
     returned |-> [i \in LintRules |-> << >>]]

InitLint ==
    /\ entry = "DSLLinter.lint"
    /\ pc = "lint"
    /\ RequestsIdle
    /\ \/ args = [empty |-> TRUE]
       \/ \E src \in LintSources, mode \in LintModes :
            args = [empty |-> FALSE, src |-> src, contract_mode |-> mode]
    /\ locals = [all_violations |-> << >>, i |-> 1]
    /\ ret = NoRet
    /\ hist = LintHistInit

\* if not code or not code.strip(): the LNC-000 result.
LintEmpty ==
    /\ entry = "DSLLinter.lint" /\ pc = "lint"
    /\ args.empty
    /\ RequestsUnchanged
    /\ ret' = EmptyCodeResult
    /\ locals' = NoLocals
    /\ pc' = "returned"
    /\ UNCHANGED <<args, hist>>

\* for rule_fn in self.RULES: one more rule; its findings extend the list, its
\* exception is caught and logged.
LintRule ==
    /\ entry = "DSLLinter.lint" /\ pc = "lint"
    /\ ~args.empty
    /\ locals.i <= Len(RULES)
    /\ RequestsUnchanged
    /\ \E outcome \in RuleOutcomes :
         LET i == locals.i
             found ==
                 IF outcome = "raises" THEN << >>
                 ELSE IF i = RuleIndex("_check_frozen_state")
                 THEN check_frozen_state(args.src, args.contract_mode)
                 ELSE IF i = RuleIndex("_check_covenant_self_anchor")
                 THEN check_covenant_self_anchor(args.src, args.contract_mode)
                 ELSE OpenFindings(i, outcome)
         IN  /\ i \in ModeRules => outcome \in {"none", "raises"}
             /\ (outcome # "none" /\ i \notin ModeRules) =>
                   Cardinality((hist.fired \cup hist.raised) \ ModeRules)
                       < MaxFiring
             /\ locals' = [all_violations |-> locals.all_violations \o found,
                           i |-> i + 1]
             /\ hist' = [fired    |-> IF found # << >>
                                      THEN hist.fired \cup {i} ELSE hist.fired,
                         raised   |-> IF outcome = "raises"
                                      THEN hist.raised \cup {i} ELSE hist.raised,
                         ran      |-> hist.ran \cup {i},
                         returned |-> [hist.returned EXCEPT ![i] = found]]
    /\ UNCHANGED <<pc, args, ret>>

\* The rules are exhausted: passed and the result.
LintReturn ==
    /\ entry = "DSLLinter.lint" /\ pc = "lint"
    /\ ~args.empty
    /\ locals.i > Len(RULES)
    /\ RequestsUnchanged
    /\ ret' = LintResult(locals.all_violations)
    /\ locals' = NoLocals
    /\ pc' = "returned"
    /\ UNCHANGED <<args, hist>>

InitAnalysis == InitPhase3 \/ InitLint

NextAnalysis ==
    \/ EnforcerParseError \/ EnforcerParse \/ EnforcerDetect \/ EnforcerReturn
    \/ Phase3Return
    \/ LintEmpty \/ LintRule \/ LintReturn

SpecAnalysis == InitAnalysis /\ [][NextAnalysis]_vars


\* ------------------------------- dsl_lint._check_covenant_self_anchor alone
SelfAnchorHistInit == [lacking |-> {}, anchored |-> {}, token_checks |-> {}]

InitSelfAnchor ==
    /\ entry = "_check_covenant_self_anchor"
    /\ pc = "mode"
    /\ RequestsIdle
    /\ args \in [contract_mode : ContractModes, has_self_ref : BOOLEAN,
                 has_token_refs : BOOLEAN]
    /\ locals = [violations |-> << >>, k |-> 0]
    /\ ret = NoRet
    /\ hist = SelfAnchorHistInit

\* The exit modes, the skipped modes and an unknown mode on a source without
\* covenant features return before the loop.
SelfAnchorModeReturn ==
    /\ entry = "_check_covenant_self_anchor" /\ pc = "mode"
    /\ RequestsUnchanged
    /\ LET gate == SelfAnchorGate(LowerStrip(args.contract_mode),
                                  args.has_self_ref, args.has_token_refs)
       IN  /\ gate # "loop"
           /\ ret' = [violations |-> IF gate = "forbidden"
                                     THEN <<Finding("LNC-008", 0)>> ELSE << >>]
    /\ locals' = NoLocals
    /\ pc' = "returned"
    /\ UNCHANGED <<args, hist>>

\* The other modes go on to the functions of the contract.
SelfAnchorEnterLoop ==
    /\ entry = "_check_covenant_self_anchor" /\ pc = "mode"
    /\ RequestsUnchanged
    /\ SelfAnchorGate(LowerStrip(args.contract_mode),
                      args.has_self_ref, args.has_token_refs) = "loop"
    /\ pc' = "functions"
    /\ UNCHANGED <<args, locals, ret, hist>>

\* for func_name, body, start_lineno in _function_bodies(code): one more
\* function of the contract.
SelfAnchorFunction ==
    /\ entry = "_check_covenant_self_anchor" /\ pc = "functions"
    /\ locals.k < MaxFunctions
    /\ RequestsUnchanged
    /\ \E f \in FunctionFacts :
         LET k == locals.k + 1
         IN  /\ FunctionFits(f, args.has_self_ref, args.has_token_refs)
             /\ locals' = [violations |->
                              IF LacksSelfAnchor(LowerStrip(args.contract_mode), f)
                              THEN Append(locals.violations, Finding("LNC-008", k))
                              ELSE locals.violations,
                           k |-> k]
             /\ hist' = [lacking  |->
                             IF /\ f.touches_outputs
                                /\ ~f.has_self_anchor /\ ~f.has_input_self_anchor
                             THEN hist.lacking \cup {k} ELSE hist.lacking,
                         anchored |->
                             IF f.has_self_anchor \/ f.has_input_self_anchor
                             THEN hist.anchored \cup {k} ELSE hist.anchored,
                         token_checks |->
                             IF /\ ~f.is_burn_func /\ f.touches_tokens
                                /\ ~f.has_self_anchor /\ ~f.has_input_self_anchor
                             THEN hist.token_checks \cup {k}
                             ELSE hist.token_checks]
    /\ UNCHANGED <<pc, args, ret>>

\* The functions are exhausted.
SelfAnchorReturn ==
    /\ entry = "_check_covenant_self_anchor" /\ pc = "functions"
    /\ RequestsUnchanged
    /\ ret' = [violations |-> locals.violations]
    /\ locals' = NoLocals
    /\ pc' = "returned"
    /\ UNCHANGED <<args, hist>>

NextSelfAnchor ==
    \/ SelfAnchorModeReturn \/ SelfAnchorEnterLoop \/ SelfAnchorFunction
    \/ SelfAnchorReturn

SpecSelfAnchor == InitSelfAnchor /\ [][NextSelfAnchor]_vars


\* ------------------- cashscript_ast.CashScriptAST and three of the detectors
MaxStatements == 3   \* statements of a contract given to CashScriptAST

\* The statements a function body is made of; <d> is a divisor, <N> an index.
\*   divide           int q = total / <d>
\*   modulo           int r = total % <d>
\*   guard_gt         require(<d> > 0)
\*   guard_ne         require(<d> != 0)
\*   token_category   require(tx.outputs[<N>].tokenCategory == category)
\*   token_amount     require(tx.outputs[<N>].tokenAmount == amount)
\*   value            require(tx.outputs[<N>].value == amount)
\*   locking_eq       require(tx.outputs[<N>].lockingBytecode == script)
\*   locking_ne       require(tx.outputs[<N>].lockingBytecode != script)
\*   locking_ne_value require(tx.outputs[<N>].lockingBytecode != script
\*                            && tx.outputs[<N>].value == amount)
DivisionKinds == {"divide", "modulo", "guard_gt", "guard_ne"}
TokenKinds    == {"token_category", "token_amount"}
OrderingKinds == {"value", "locking_eq", "locking_ne", "locking_ne_value"}

Divisors      == {"shares", "rate"}
OutputIndices == {0, 1}
AstFunctions  == 1..MaxFunctions

Statements ==
    [function : AstFunctions, kind : DivisionKinds, divisor : Divisors,
     index : {0}]
    \cup [function : AstFunctions, kind : TokenKinds \cup OrderingKinds,
          divisor : {""}, index : OutputIndices]

\* The detector under test reads only part of the AST: it is run on contracts
\* made of the statements that reach that part.
StatementsFor(detector) ==
    {s \in Statements :
        CASE detector = "DivisionByZeroDetector"         -> s.kind \in DivisionKinds
          [] detector = "TokenPairValidationDetector"    -> s.kind \in TokenKinds
          [] detector = "ImplicitOutputOrderingDetector" -> s.kind \in OrderingKinds}

\* Location(line=0, column=0, function=func_name): _parse gives every
\* statement line 0.
Location(function) == [line |-> 0, column |-> 0, function |-> function]

\* re.findall(r'tx\.outputs\[(\d+)\]\.(\w+)', stmt)
StmtOutputRefs(s) ==
    CASE s.kind = "token_category"   -> <<[index |-> s.index, property_accessed |-> "tokenCategory"]>>
      [] s.kind = "token_amount"     -> <<[index |-> s.index, property_accessed |-> "tokenAmount"]>>
      [] s.kind = "value"            -> <<[index |-> s.index, property_accessed |-> "value"]>>
      [] s.kind = "locking_eq"       -> <<[index |-> s.index, property_accessed |-> "lockingBytecode"]>>
      [] s.kind = "locking_ne"       -> <<[index |-> s.index, property_accessed |-> "lockingBytecode"]>>
      [] s.kind = "locking_ne_value" -> <<[index |-> s.index, property_accessed |-> "lockingBytecode"],
                                          [index |-> s.index, property_accessed |-> "value"]>>
      [] OTHER                       -> << >>

\* re.findall(r'(\w+)\s*([/%])\s*(\w+)', stmt)
StmtDivisions(s) ==
    CASE s.kind = "divide" -> <<[op |-> "/", divisor_expression |-> s.divisor]>>
      [] s.kind = "modulo" -> <<[op |-> "%", divisor_expression |-> s.divisor]>>
      [] OTHER             -> << >>

\* 'require(' in stmt
IsRequire(s) == s.kind \notin {"divide", "modulo"}

\* '==' in condition
CondHasEq(s) ==
    s.kind \in {"token_category", "token_amount", "value", "locking_eq",
                "locking_ne_value"}

\* 'lockingBytecode' in condition
CondHasLockingBytecode(s) ==
    s.kind \in {"locking_eq", "locking_ne", "locking_ne_value"}

\* '> 0' in condition or '!= 0' in condition
CondHasNonZeroTest(s) == s.kind \in {"guard_gt", "guard_ne"}

\* The ValidationCheck of a require statement. Of the condition text are kept
\* the substrings the AST queries look for: the divisors and the
\* tx.outputs[N].lockingBytecode it holds and whether it holds '> 0' or '!= 0'.
ValidationCheck(s) ==
    [location |-> Location(s.function),
     condition |-> [divisors |-> IF s.kind \in {"guard_gt", "guard_ne"}
                                 THEN {s.divisor} ELSE {},
                    locking_refs |-> IF CondHasLockingBytecode(s)
                                     THEN {s.index} ELSE {},
                    non_zero_test |-> CondHasNonZeroTest(s)],
     validates_locking_bytecode |-> CondHasLockingBytecode(s) /\ CondHasEq(s),
     validates_token_category |-> IF s.kind = "token_category" THEN {s.index} ELSE {},
     validates_token_amount |-> IF s.kind = "token_amount" THEN {s.index} ELSE {}]

EmptyAST == [output_references |-> << >>, validations |-> << >>,
             arithmetic_ops |-> << >>]

\* The pass of _parse over one statement of a function body.
ParseStatement(ast, s) ==
    LET refs == StmtOutputRefs(s)
        divs == StmtDivisions(s)
    IN  [output_references |->
            ast.output_references \o
            [k \in 1..Len(refs) |->
                [index |-> refs[k].index, location |-> Location(s.function),
                 property_accessed |-> refs[k].property_accessed]],
         arithmetic_ops |->
            ast.arithmetic_ops \o
            [k \in 1..Len(divs) |->
                [op |-> divs[k].op, location |-> Location(s.function),
                 divisor_expression |-> divs[k].divisor_expression]],
         validations |->
            IF IsRequire(s) THEN Append(ast.validations, ValidationCheck(s))
            ELSE ast.validations]

\* The guarded flag has_unguarded_division computes for one operation.
Guarded(ast, op) ==
    \E k \in 1..Len(ast.validations) :
        LET v == ast.validations[k]
        IN  /\ v.location.function = op.location.function
            /\ v.location.line < op.location.line
            /\ op.divisor_expression \in v.condition.divisors
            /\ v.condition.non_zero_test

\* CashScriptAST.has_unguarded_division
has_unguarded_division(ast) ==
    SelectSeq(ast.arithmetic_ops,
              LAMBDA op : op.op \in {"/", "%"} /\ ~Guarded(ast, op))

\* CashScriptAST.find_token_pair_violations, the list as a set.
find_token_pair_violations(ast) ==
    LET cats == UNION {ast.validations[k].validates_token_category :
                         k \in 1..Len(ast.validations)}
        amts == UNION {ast.validations[k].validates_token_amount :
                         k \in 1..Len(ast.validations)}
    IN  cats \ amts

\* CashScriptAST.validates_locking_bytecode_for
validates_locking_bytecode_for(ast, output_ref) ==
    \E k \in 1..Len(ast.validations) :
        LET validation == ast.validations[k]
        IN  /\ validation.location.function = output_ref.location.function
            /\ validation.validates_locking_bytecode
            /\ output_ref.index \in validation.condition.locking_refs

\* CashScriptAST.references_output_by_index_without_semantic_validation
references_output_by_index_without_semantic_validation(ast) ==
    SelectSeq(ast.output_references,
              LAMBDA output_ref :
                  /\ output_ref.property_accessed # "lockingBytecode"
                  /\ ~validates_locking_bytecode_for(ast, output_ref))

NoViolation == [violation |-> FALSE]

\* DivisionByZeroDetector.detect
DivisionByZeroDetector(ast) ==
    LET unguarded == has_unguarded_division(ast)
    IN  IF unguarded # << >>
        THEN [violation |-> TRUE, rule |-> "division_by_zero.cash",
              function |-> unguarded[1].location.function,
              divisor |-> unguarded[1].divisor_expression]
        ELSE NoViolation

\* TokenPairValidationDetector.detect
TokenPairValidationDetector(ast) ==
    LET idxs == find_token_pair_violations(ast)
    IN  IF idxs # {}
        THEN [violation |-> TRUE, rule |-> "missing_token_amount_validation.cash",
              output_indices |-> idxs]
        ELSE NoViolation

\* ImplicitOutputOrderingDetector.detect
ImplicitOutputOrderingDetector(ast) ==
    LET unvalidated_refs == references_output_by_index_without_semantic_validation(ast)
    IN  IF unvalidated_refs # << >>
        THEN [violation |-> TRUE, rule |-> "implicit_output_ordering.cash",
              function |-> unvalidated_refs[1].location.function,
              output_index |-> unvalidated_refs[1].index,
              total_violations |-> Len(unvalidated_refs)]
        ELSE NoViolation

DetectorsUnderTest ==
    {"DivisionByZeroDetector", "TokenPairValidationDetector",
     "ImplicitOutputOrderingDetector"}

\* hist.stmts is the source: the statements in the order they stand in it.
InitDetectors ==
    /\ entry \in DetectorsUnderTest
    /\ pc = "parse"
    /\ RequestsIdle
    /\ args = NoArgs
    /\ locals = [ast |-> EmptyAST, function |-> 1]
    /\ ret = NoRet
    /\ hist = [stmts |-> << >>]

\* _parse reads one more statement, of the function it is in or of a later one.
AstParseStatement ==
    /\ entry \in DetectorsUnderTest /\ pc = "parse"
    /\ Len(hist.stmts) < MaxStatements
    /\ RequestsUnchanged
    /\ \E s \in StatementsFor(entry) :
         /\ s.function >= locals.function
         /\ locals' = [ast |-> ParseStatement(locals.ast, s),
                       function |-> s.function]
         /\ hist' = [stmts |-> Append(hist.stmts, s)]
    /\ UNCHANGED <<pc, args, ret>>

DetectDivisionByZero ==
    /\ entry = "DivisionByZeroDetector" /\ pc = "parse"
    /\ RequestsUnchanged
    /\ ret' = DivisionByZeroDetector(locals.ast)
    /\ locals' = NoLocals
    /\ pc' = "returned"
    /\ UNCHANGED <<args, hist>>

DetectTokenPair ==
    /\ entry = "TokenPairValidationDetector" /\ pc = "parse"
    /\ RequestsUnchanged
    /\ ret' = TokenPairValidationDetector(locals.ast)
    /\ locals' = NoLocals
    /\ pc' = "returned"
    /\ UNCHANGED <<args, hist>>

DetectImplicitOutputOrdering ==
    /\ entry = "ImplicitOutputOrderingDetector" /\ pc = "parse"
    /\ RequestsUnchanged
    /\ ret' = ImplicitOutputOrderingDetector(locals.ast)
    /\ locals' = NoLocals
    /\ pc' = "returned"
    /\ UNCHANGED <<args, hist>>

NextDetectors ==
    \/ AstParseStatement
    \/ DetectDivisionByZero \/ DetectTokenPair \/ DetectImplicitOutputOrdering

SpecDetectors == InitDetectors /\ [][NextDetectors]_vars


\* ------------------------------------------------- audit_agent.AuditAgent.audit
MaxFindings == 2   \* findings of the linter, and violations of the toll gate,
                   \* in one audit

\* COMPILE_ERROR_MAP.get(err_type, "compile_unknown_error") on the error types
\* the compiler is given here.
CompileErrorTypes == {"ParseError", "TypeMismatchError", "SomethingElse"}

COMPILE_ERROR_MAP(err_type) ==
    CASE err_type = "ParseError"        -> "compile_parse_error"
      [] err_type = "TypeMismatchError" -> "compile_type_mismatch"
      [] OTHER                          -> "compile_unknown_error"

\* The findings linter.lint returns to the audit: the frozen-state warning, a
\* finding without a severity key (every other rule of DSLLinter), and one
\* declared info, which no rule of DSLLinter produces and the audit provides
\* for. The severity "" stands for the missing key.
AuditLintFindings ==
    {[rule_id |-> "LNC-012", severity |-> "warning"],
     [rule_id |-> "LNC-003", severity |-> ""],
     [rule_id |-> "LNC-015", severity |-> "info"]}

\* The violations Phase3.validate returns to the audit; ViolationDetail.severity
\* is "critical" unless the detector says otherwise.
AuditTollViolations ==
    {[rule |-> "unvalidated_position.cash", severity |-> "critical"],
     [rule |-> "weak_output_count_limit",   severity |-> "medium"],
     [rule |-> "LNC-003",                   severity |-> "severe"]}

\* str.upper() on the severity strings above.
Upper(sev) ==
    CASE sev = "warning"  -> "WARNING"
      [] sev = "info"     -> "INFO"
      [] sev = "critical" -> "CRITICAL"
      [] sev = "medium"   -> "MEDIUM"
      [] sev = "severe"   -> "SEVERE"
      [] OTHER            -> sev

\* Severity(s): the member of the enum, or ValueError, for which both loops of
\* the audit fall back to HIGH.
SeverityOrHigh(s) == IF s \in Severities THEN s ELSE "HIGH"

\* The severity the audit gives a lint finding.
LintSeverity(violation) ==
    LET s0 == IF violation.severity # "" THEN violation.severity ELSE "HIGH"
        lint_sev_str == IF Upper(s0) = "INFO" THEN "LOW" ELSE Upper(s0)
    IN  SeverityOrHigh(lint_sev_str)

LintIssue(violation) ==
    [origin |-> "lint", rule_id |-> violation.rule_id,
     severity |-> LintSeverity(violation),
     can_fix |-> violation.severity # "info"]

TollIssue(violation) ==
    [origin |-> "toll_gate", rule_id |-> violation.rule,
     severity |-> SeverityOrHigh(IF violation.severity # ""
                                 THEN Upper(violation.severity) ELSE "HIGH"),
     can_fix |-> TRUE]

CompileIssue(err_type) ==
    [origin |-> "compile", rule_id |-> COMPILE_ERROR_MAP(err_type),
     severity |-> "CRITICAL", can_fix |-> TRUE]

SeqsUpTo(S, n) == UNION {[1..k -> S] : k \in 0..n}

\* The responses of the audit provider: complete raises or returns no JSON
\* object (failed), or returns an object with a category and, if has_biz, a
\* business_logic_score.
SemanticResponses ==
    [failed : {TRUE}, category : {""}, has_biz : {FALSE}, business_logic_score : {0}]
    \cup [failed : {FALSE}, category : RawCategories, has_biz : {FALSE},
          business_logic_score : {0}]
    \cup [failed : {FALSE}, category : RawCategories, has_biz : {TRUE},
          business_logic_score : BusinessScores]

\* Step 4 of the audit: the category and the business logic score it hands to
\* the scoring.
SemanticClassification(compile_ok, response) ==
    IF ~compile_ok \/ response.failed
    THEN [semantic_category |-> "none", business_logic_score |-> 5]
    ELSE [semantic_category |->
              LET raw_category == StripLower(response.category)
              IN  IF raw_category \notin ALLOWED_CATEGORIES THEN "none"
                  ELSE raw_category,
          business_logic_score |->
              LET raw_biz == IF response.has_biz
                             THEN response.business_logic_score ELSE 5
              IN  Max(0, Min(10, raw_biz))]

AuditRuleIds ==
    {COMPILE_ERROR_MAP(t) : t \in CompileErrorTypes}
    \cup {f.rule_id : f \in AuditLintFindings}
    \cup {v.rule : v \in AuditTollViolations}

\* The deduplication loop of calculate_audit_report over a list of issues.
RECURSIVE UniqueIssuesMap(_, _)
UniqueIssuesMap(issues, n) ==
    IF n = 0 THEN [r \in AuditRuleIds |-> "absent"]
    ELSE DedupeStep(UniqueIssuesMap(issues, n - 1), issues[n])

\* deduped_issues, the list as a set: of each rule id the first issue of the
\* highest penalty.
DedupedIssues(issues) ==
    {issues[k] : k \in
        {k \in 1..Len(issues) :
            /\ \A j \in 1..Len(issues) :
                 issues[j].rule_id = issues[k].rule_id =>
                    DET_PENALTIES(issues[j].severity) <= DET_PENALTIES(issues[k].severity)
            /\ \A j \in 1..(k - 1) :
                 issues[j].rule_id = issues[k].rule_id =>
                    DET_PENALTIES(issues[j].severity) < DET_PENALTIES(issues[k].severity)}}

\* calculate_audit_report on what the audit collected.
AuditReport(issues, compile_ok, semantic_category, business_logic_score) ==
    LET det_score == DetScore(UniqueIssuesMap(issues, Len(issues)), compile_ok)
        normalised_category == NormaliseCategory(semantic_category)
        semantic_score == SemanticScore(normalised_category, business_logic_score)
        display_score == DisplayScore(det_score + semantic_score)
    IN  [deterministic_score |-> det_score,
         semantic_score      |-> semantic_score,
         total_score         |-> display_score,
         semantic_category   |-> normalised_category,
         deployment_allowed  |-> DeploymentAllowed(det_score, semantic_score,
                                                   display_score),
         issues              |-> DedupedIssues(issues)]

\* args collects what the collaborators of the audit returned.
InitAudit ==
    /\ entry = "AuditAgent.audit"
    /\ pc = "compile"
    /\ RequestsIdle
    /\ args = NoArgs
    /\ locals = [issues |-> << >>]
    /\ ret = NoRet
    /\ hist = [none |-> TRUE]

\* 1. Compile check.
AuditCompile ==
    /\ entry = "AuditAgent.audit" /\ pc = "compile"
    /\ RequestsUnchanged
    /\ \/ /\ args' = [compile_success |-> TRUE]
          /\ UNCHANGED locals
       \/ \E err_type \in CompileErrorTypes :
             /\ args' = [compile_success |-> FALSE]
             /\ locals' = [issues |-> Append(locals.issues, CompileIssue(err_type))]
    /\ pc' = "lint"
    /\ UNCHANGED <<ret, hist>>

\* 2. DSL lint: one issue per finding.
AuditLint ==
    /\ entry = "AuditAgent.audit" /\ pc = "lint"
    /\ RequestsUnchanged
    /\ \E fs \in SeqsUpTo(AuditLintFindings, MaxFindings) :
         /\ args' = [compile_success |-> args.compile_success, lint |-> fs]
         /\ locals' = [issues |-> locals.issues \o
                          [k \in 1..Len(fs) |-> LintIssue(fs[k])]]
    /\ pc' = "toll_gate"
    /\ UNCHANGED <<ret, hist>>

\* 3. Toll gate: one issue per violation.
AuditTollGate ==
    /\ entry = "AuditAgent.audit" /\ pc = "toll_gate"
    /\ RequestsUnchanged
    /\ \E vs \in SeqsUpTo(AuditTollViolations, MaxFindings) :
         /\ args' = [compile_success |-> args.compile_success, lint |-> args.lint,
                     toll_gate |-> vs]
         /\ locals' = [issues |-> locals.issues \o
                          [k \in 1..Len(vs) |-> TollIssue(vs[k])]]
    /\ pc' = "semantic"
    /\ UNCHANGED <<ret, hist>>

\* 4. and 5. The compile failed: no classification; the report.
AuditSkipSemantic ==
    /\ entry = "AuditAgent.audit" /\ pc = "semantic"
    /\ ~args.compile_success
    /\ RequestsUnchanged
    /\ LET c == SemanticClassification(FALSE, [failed |-> TRUE])
       IN  ret' = AuditReport(locals.issues, FALSE, c.semantic_category,
                              c.business_logic_score)
    /\ locals' = NoLocals
    /\ pc' = "returned"
    /\ UNCHANGED <<args, hist>>

\* 4. and 5. The classification by the audit provider; the report.
AuditSemantic ==
    /\ entry = "AuditAgent.audit" /\ pc = "semantic"
    /\ args.compile_success
    /\ RequestsUnchanged
    /\ \E response \in SemanticResponses :
         LET c == SemanticClassification(TRUE, response)
         IN  /\ args' = [compile_success |-> TRUE, lint |-> args.lint,
                         toll_gate |-> args.toll_gate, response |-> response]
             /\ ret' = AuditReport(locals.issues, TRUE, c.semantic_category,
                                   c.business_logic_score)
    /\ locals' = NoLocals
    /\ pc' = "returned"
    /\ UNCHANGED hist

NextAudit ==
    \/ AuditCompile \/ AuditLint \/ AuditTollGate \/ AuditSkipSemantic
    \/ AuditSemantic

SpecAudit == InitAudit /\ [][NextAudit]_vars


\* ------------------------------ GuardedPipelineEngine._request_syntax_fix
MaxLines == 3   \* lines of the source handed to the syntax fix

\* The source as its lines, each of the kind the patterns of the fix tell
\* apart: a blank line, a declaration "T x = ...;" of the variable the compiler
\* calls unused, an opening and a closing brace, a timelock require with a
\* trailing "&&" clause, a "bytes b" declaration and a line holding a ternary
\* "?"; the rewrites turn the last three into "require_time", "bytes32_b" and
\* "ternary_stripped".
SourceLines == {"blank", "decl_x", "{", "}", "require_time_and", "bytes_b", "?"}
Sources     == SeqsUpTo(SourceLines, MaxLines)

ErrorTypes  == {"UnusedVariableError", "ExtraneousInputError",
                "TypeMismatchError", "ParseError", "UnknownError"}
ErrorTokens == {"", "x", "<EOF>", "tx.time", "?"}

\* What compiler.compile can report of a source: cashc names a token of the
\* text it rejects in a token recognition error.
CompilerErrors(source) ==
    {e \in [type : ErrorTypes, token : ErrorTokens, raw_has_bytes32 : BOOLEAN] :
        (e.type = "ParseError" /\ e.token = "?") =>
            \E k \in 1..Len(source) : source[k] = "?"}

Count(source, line) == Cardinality({k \in 1..Len(source) : source[k] = line})

\* str.strip(): the blank lines at both ends go.
Strip(source) ==
    LET kept == {k \in 1..Len(source) : source[k] # "blank"}
    IN  IF kept = {} THEN << >>
        ELSE SubSeq(source, CHOOSE k \in kept : \A j \in kept : k <= j,
                            CHOOSE k \in kept : \A j \in kept : j <= k)

Replace(source, from, to) ==
    [k \in 1..Len(source) |-> IF source[k] = from THEN to ELSE source[k]]

\* re.sub of the declaration pattern (MULTILINE): each declaration of the
\* variable goes, with the blank lines its leading and trailing \s* reach.
StripUnusedVariable(source) ==
    LET gone(k) ==
            \/ source[k] = "decl_x"
            \/ /\ source[k] = "blank"
               /\ \E j \in 1..Len(source) :
                    /\ source[j] = "decl_x"
                    /\ \A i \in (Min(j, k) + 1)..(Max(j, k) - 1) :
                         source[i] = "blank"
    IN  SelectSeq([k \in 1..Len(source) |->
                      IF gone(k) THEN "gone" ELSE source[k]],
                  LAMBDA line : line # "gone")

\* Fault variant: the ternary token is left in place.
StripTernaryKeeps(source) == source

\* code.replace("?", ""): the lines lose their "?".
StripTernary(source) == Replace(source, "?", "ternary_stripped")

\* The deterministic fixes in the order the code tries them: the branch that
\* returns and what it returns, or the fallback to the oracle.
DeterministicFix(source, e) ==
    LET unused == StripUnusedVariable(source)
        timelock == Replace(source, "require_time_and", "require_time")
        bytes32 == Replace(source, "bytes_b", "bytes32_b")
    IN  IF e.type = "UnusedVariableError" /\ e.token # "" /\ unused # source
        THEN [branch |-> "unused_variable", fixed |-> Strip(unused)]
        ELSE IF /\ e.type = "ExtraneousInputError" /\ e.token = "<EOF>"
                /\ Count(source, "{") > Count(source, "}")
        THEN [branch |-> "closing_brace", fixed |-> Strip(Append(source, "}"))]
        ELSE IF /\ e.type = "ExtraneousInputError" /\ e.token = "tx.time"
                /\ timelock # source
        THEN [branch |-> "timelock", fixed |-> Strip(timelock)]
        ELSE IF /\ e.type = "TypeMismatchError" /\ e.raw_has_bytes32
                /\ bytes32 # source
        THEN [branch |-> "bytes32", fixed |-> Strip(bytes32)]
        ELSE IF e.type = "ParseError" /\ e.token = "?"
        THEN [branch |-> "ternary", fixed |-> Strip(StripTernary(source))]
        ELSE [branch |-> "llm", fixed |-> source]

\* _extract_cash_code of the oracle's answer: the failing source again, or
\* another one.
OracleFixes(source) == {source, << >>, <<"{", "require_time", "}">>}

InitSyntaxFix ==
    /\ entry = "_request_syntax_fix"
    /\ pc = "called"
    /\ RequestsIdle
    /\ \E source \in Sources : \E e \in CompilerErrors(source) :
         args = [code |-> source, error_obj |-> e]
    /\ locals = NoLocals
    /\ ret = NoRet
    /\ hist = [oracle_calls |-> 0]

\* One of the deterministic fixes returns.
SyntaxFixDeterministic ==
    /\ entry = "_request_syntax_fix" /\ pc = "called"
    /\ RequestsUnchanged
    /\ DeterministicFix(args.code, args.error_obj).branch # "llm"
    /\ ret' = [code |-> DeterministicFix(args.code, args.error_obj).fixed]
    /\ pc' = "returned"
    /\ UNCHANGED <<args, locals, hist>>

\* The fallback: llm.complete returns a source or raises.
SyntaxFixOracle ==
    /\ entry = "_request_syntax_fix" /\ pc = "called"
    /\ RequestsUnchanged
    /\ DeterministicFix(args.code, args.error_obj).branch = "llm"
    /\ hist' = [oracle_calls |-> hist.oracle_calls + 1]
    /\ \/ \E fixed \in OracleFixes(args.code) :
             /\ ret' = [code |-> fixed]
             /\ pc' = "returned"
       \/ /\ pc' = "raised"
          /\ UNCHANGED ret
    /\ UNCHANGED <<args, locals>>

NextSyntaxFix == SyntaxFixDeterministic \/ SyntaxFixOracle

SpecSyntaxFix == InitSyntaxFix /\ [][NextSyntaxFix]_vars


\* ------------------------------------------------- session.SessionManager
MaxTurns == 2   \* turns stored in one session

\* The ids callers pass ("" is None) and the codes they store.
CallerSessionIds == {"", "s1", "s2"}
StoredCodes == {CleanCode, [guard |-> TRUE, lint |-> {}, toll |-> {1}, sanity |-> TRUE]}

\* SessionManager.create: a new SessionState under the id, whatever was there.
CreateSession(id, store) ==
    LET sid == IF id # "" THEN id ELSE "u1"
    IN  [s \in DOMAIN store \cup {sid} |->
            IF s = sid THEN [history |-> <<>>, current_code |-> NoCode]
            ELSE store[s]]

\* SessionManager.delete.
DeleteSession(id, store) ==
    [s \in DOMAIN store \ {id} |-> store[s]]

\* locals holds self._sessions, args the latest call and ret how it returned.
InitSessions ==
    /\ entry = "SessionManager"
    /\ pc = "idle"
    /\ RequestsIdle
    /\ args = NoArgs
    /\ locals = [sessions |-> NoSessions]
    /\ ret = NoRet
    /\ hist = [none |-> TRUE]

\* uuid4 gives an id no session has: one such id, "u1", is at hand.
FreshIdAtHand(id, store) == id = "" => "u1" \notin DOMAIN store

SessionCreate ==
    /\ entry = "SessionManager"
    /\ RequestsUnchanged
    /\ \E sid \in CallerSessionIds :
         /\ FreshIdAtHand(sid, locals.sessions)
         /\ args' = [op |-> "create", session_id |-> sid]
         /\ locals' = [sessions |-> CreateSession(sid, locals.sessions)]
    /\ ret' = [raised |-> FALSE]
    /\ UNCHANGED <<pc, hist>>

SessionGetOrCreate ==
    /\ entry = "SessionManager"
    /\ RequestsUnchanged
    /\ \E sid \in CallerSessionIds :
         /\ FreshIdAtHand(sid, locals.sessions)
         /\ args' = [op |-> "get_or_create", session_id |-> sid]
         /\ locals' = [sessions |-> GetOrCreate(sid, locals.sessions)]
    /\ ret' = [raised |-> FALSE]
    /\ UNCHANGED <<pc, hist>>

\* store_turn: ValueError for an id without a session, else the turn is
\* appended.
SessionStoreTurn ==
    /\ entry = "SessionManager"
    /\ RequestsUnchanged
    /\ \E sid \in CallerSessionIds \cup {"u1"} : \E final_code \in StoredCodes :
         /\ args' = [op |-> "store_turn", session_id |-> sid]
         /\ IF sid \notin DOMAIN locals.sessions
            THEN /\ ret' = [raised |-> TRUE]
                 /\ UNCHANGED locals
            ELSE /\ Len(locals.sessions[sid].history) < MaxTurns
                 /\ ret' = [raised |-> FALSE]
                 /\ locals' = [sessions |->
                                  StoreTurn(locals.sessions, sid, "escrow", final_code)]
    /\ UNCHANGED <<pc, hist>>

SessionDelete ==
    /\ entry = "SessionManager"
    /\ RequestsUnchanged
    /\ \E sid \in CallerSessionIds \cup {"u1"} :
         /\ args' = [op |-> "delete", session_id |-> sid]
         /\ locals' = [sessions |-> DeleteSession(sid, locals.sessions)]
    /\ ret' = [raised |-> FALSE]
    /\ UNCHANGED <<pc, hist>>

NextSessions ==
    \/ SessionCreate \/ SessionGetOrCreate \/ SessionStoreTurn \/ SessionDelete

SpecSessions == InitSessions /\ [][NextSessions]_vars


\* --------------------------------------- llm.base.ResilientProvider.complete
MaxConfigs == 3   \* configurations of one resilient provider

\* What a configuration's provider.complete can raise as an Exception.
ProviderErrors == {"timeout", "rate_limit", "bad_request"}

\* Fault variant: the first error is kept.
RecordFirstError(last_error_, e) == IF last_error_ = "None" THEN e ELSE last_error_

\* except Exception as e: last_error = e
RecordError(last_error_, e) == e

\* self.configs is the primary configuration and the fallbacks; the call may
\* carry a temperature of its own.
InitProvider ==
    /\ entry = "ResilientProvider.complete"
    /\ pc = "loop"
    /\ RequestsIdle
    /\ args \in [configs : 1..MaxConfigs, temperature : BOOLEAN]
    /\ locals = [i |-> 1, last_error |-> "None", kwargs_temperature |-> args.temperature]
    /\ ret = NoRet
    /\ hist = [tried |-> << >>, errors |-> << >>]

\* One pass of the loop over self.configs: the configuration's provider
\* returns, raises an Exception, or the await is cancelled (a BaseException,
\* which the except clause lets through).
ProviderAttempt ==
    /\ entry = "ResilientProvider.complete" /\ pc = "loop"
    /\ locals.i <= args.configs
    /\ RequestsUnchanged
    /\ LET tried == Append(hist.tried,
                           [config |-> locals.i,
                            temperature |-> IF locals.kwargs_temperature
                                            THEN "call" ELSE "config"])
       IN  \/ /\ ret' = [type |-> "returned", config |-> locals.i]
              /\ pc' = "returned"
              /\ locals' = NoLocals
              /\ hist' = [tried |-> tried, errors |-> hist.errors]
           \/ \E e \in ProviderErrors :
                /\ locals' = [i |-> locals.i + 1,
                              last_error |-> RecordError(locals.last_error, e),
                              kwargs_temperature |-> FALSE]
                /\ hist' = [tried |-> tried, errors |-> Append(hist.errors, e)]
                /\ UNCHANGED <<pc, ret>>
           \/ /\ ret' = [type |-> "CancelledError", config |-> locals.i]
              /\ pc' = "raised"
              /\ locals' = NoLocals
              /\ hist' = [tried |-> tried, errors |-> hist.errors]
    /\ UNCHANGED args

\* After the loop: the RuntimeError with the final error.
ProviderExhausted ==
    /\ entry = "ResilientProvider.complete" /\ pc = "loop"
    /\ locals.i > args.configs
    /\ RequestsUnchanged
    /\ ret' = [type |-> "RuntimeError", configs |-> args.configs,
               final_error |-> locals.last_error]
    /\ pc' = "raised"
    /\ locals' = NoLocals
    /\ UNCHANGED <<args, hist>>

NextProvider == ProviderAttempt \/ ProviderExhausted

SpecProvider == InitProvider /\ [][NextProvider]_vars


\* ================================================================ properties
EngineRequest == entry = "generate_guarded"
EngineReturned == EngineRequest /\ pc = "returned"
EngineSuccess == EngineReturned /\ result.type = "success"
EngineExhaustedReturn ==
    /\ EngineReturned /\ result.type = "error"
    /\ result.error.code = "generation_exhausted"
RepairSuccess == entry = "repair" /\ pc = "returned" /\ result.success

\* C1: whenever generate_guarded returns type=success, the returned code is one
\* on which the language guard found nothing, the linter passed, the compiler
\* succeeded, the toll gate passed with zero violations and the sanity check
\* succeeded -- also when the draft was replaced by a lint-retry regeneration or
\* by a compile-fix repair during the attempt.
C1_SuccessPassedEveryGate ==
    EngineSuccess =>
        /\ ~guard_failure(result.data.code)
        /\ Lint(result.data.code).passed
        /\ compile_success
        /\ Phase3Validate(result.data.code).passed
        /\ result.data.toll_gate.violations = {}
        /\ SanityValidate(result.data.code).success

\* C2: if every draft passes the language guard and lint, every compile succeeds
\* and every draft triggers the same toll-gate violation, the request makes
\* exactly 2 generation attempts and returns generation_exhausted; it never
\* returns success, and until it has returned it can always take a step.
C2_TollFailureExhausts ==
    (EngineRequest /\ intent_model = "parsed" /\ hist.only_tollfail
        /\ ~hist.oracle_failed) =>
        /\ gen_attempt <= 2 /\ hist.draft_calls <= 2
        /\ lint_attempt = 0 /\ fix_attempt = 0
        /\ result.type # "success"
        /\ pc = "returned" =>
              /\ result = ExhaustedResult(last_error)
              /\ hist.draft_calls = 2
        /\ pc # "returned" => ENABLED Next

C2_Witness ==
    EngineExhaustedReturn /\ hist.only_tollfail /\ hist.draft_calls = 2

\* C3: if every source the oracle returns is the one clean contract and every
\* compile succeeds, the request returns success in the first generation
\* attempt with zero toll-gate violations, after exactly one code-generation
\* call (one draft call, no lint retry) and one compile call (no failed compile
\* before the successful one, hence no repair).
C3_CleanContractConverges ==
    (EngineRequest /\ intent_model = "parsed" /\ hist.only_clean
        /\ ~hist.oracle_failed) =>
        /\ gen_attempt = 0 /\ hist.draft_calls <= 1
        /\ lint_attempt = 0 /\ fix_attempt = 0
        /\ hist.last_failed_raw = "none"
        /\ pc = "returned" =>
              /\ result.type = "success"
              /\ result.data.code = CleanCode
              /\ result.data.toll_gate.passed
              /\ result.data.toll_gate.violations = {}
              /\ hist.draft_calls = 1
              /\ compile_success
        /\ pc # "returned" => ENABLED Next

C3_Witness ==
    EngineSuccess /\ hist.only_clean /\ hist.draft_calls = 1

\* C4: the draft call of generation attempt k+1 receives prior violations if
\* and only if attempt k ended with a toll-gate failure, and then exactly the
\* violations of that toll-gate result (from which Phase2.run builds its
\* violation context); after a language-guard trip, lint exhaustion, compile
\* exhaustion or sanity failure it receives none and builds no context.
C4_OnlyTollFailureCarriesContext ==
    (EngineRequest /\ pc = "phase2_guard" /\ gen_attempt >= 1) =>
        /\ hist.attempt_end \in {"guard", "lint", "compile", "toll", "sanity"}
        /\ (hist.attempt_end = "toll") <=> ~hist.draft_arg.none
        /\ hist.attempt_end = "toll" =>
              /\ hist.end_violations # {}
              /\ hist.draft_arg = Violations(hist.end_violations)
              /\ hist.draft_ctx = hist.end_violations
        /\ hist.attempt_end # "toll" =>
              /\ hist.draft_arg = NoViolations
              /\ hist.draft_ctx = {}

C4_Witness ==
    /\ EngineRequest /\ pc = "phase2_guard" /\ gen_attempt = 1
    /\ hist.attempt_end = "toll"
    /\ hist.draft_ctx = {1, 2}

\* C5: RepairAgent.repair never returns success=true with corrected code that
\* contains fewer require statements than the original code.
C5_RequireCountNeverDrops ==
    RepairSuccess =>
        count_requires(result.corrected_code) >= count_requires(original_code)

\* C6: RepairAgent.repair returns success=true only with corrected code whose
\* set of lint rule ids is a subset of that of the original code; an attempt
\* that introduces a rule id absent from the original is rejected.
C6_NoNewLintRuleIds ==
    RepairSuccess =>
        Lint(result.corrected_code).violations \subseteq Lint(original_code).violations

\* A success that followed an attempt rejected for a new rule id.
C6_Witness ==
    RepairSuccess /\ user_prompt # {}

\* C7: RepairAgent.repair makes at most three oracle attempts in the fixed order
\* fast, fast, escalated, always returns a response, and when no attempt passes
\* it returns the original code with success=false after the three attempts.
C7_ThreeTieredAttempts ==
    entry = "repair" =>
        /\ pc # "raised"
        /\ Len(hist.tiers_called) <= 3
        /\ hist.tiers_called =
               SubSeq(<< "fast", "fast", "escalated" >>, 1, Len(hist.tiers_called))
        /\ (pc = "returned" /\ ~result.success) =>
              /\ result.corrected_code = original_code
              /\ Len(hist.tiers_called) = 3

\* C8: when an oracle call of generate_guarded fails with every provider
\* configuration exhausted (intent parsing, draft, lint retry, compile repair),
\* generate_guarded still returns a structured error object.
C8_OracleFailureReturnsError ==
    (EngineRequest /\ hist.oracle_failed) =>
        /\ pc = "returned"
        /\ result.type = "error"

\* C9 (as stated): every failure result of generate and generate_guarded carries
\* a code from {MISSING_INTENT, PHASE1_FAILED, TOLL_GATE_FAILED,
\* generation_exhausted}, and a request with an empty intent yields
\* MISSING_INTENT before any oracle call.
C9_FourErrorCodes ==
    entry \in {"generate", "generate_guarded"} =>
        /\ (pc = "returned" /\ result.type = "error") =>
              result.error.code \in {"MISSING_INTENT", "PHASE1_FAILED",
                                     "TOLL_GATE_FAILED", "generation_exhausted"}
        /\ intent = "" => ~hist.oracle_called
        /\ (intent = "" /\ pc = "returned") =>
              result = ControllerError("MISSING_INTENT", {})

\* C9 (amended): every error result of generate and generate_guarded carries a
\* code from {MISSING_INTENT, PHASE1_FAILED, PHASE2_FAILED, TOLL_GATE_FAILED,
\* intent_parse_failed, generation_exhausted}; a GenerationController.generate
\* request with an empty intent returns MISSING_INTENT at once, before any
\* oracle call and without touching the session store.
C9_SixErrorCodes ==
    /\ (entry \in {"generate", "generate_guarded"} /\ pc = "returned"
            /\ result.type = "error") =>
          result.error.code \in {"MISSING_INTENT", "PHASE1_FAILED", "PHASE2_FAILED",
                                 "TOLL_GATE_FAILED", "intent_parse_failed",
                                 "generation_exhausted"}
    /\ (entry = "generate" /\ intent = "" /\ pc # "generate") =>
          /\ pc = "returned"
          /\ result = ControllerError("MISSING_INTENT", {})
          /\ ~hist.oracle_called
          /\ sessions \in {NoSessions, OneTurnStore}

C9_Witness ==
    /\ entry = "generate" /\ pc = "returned" /\ result.type = "error"
    /\ result.error.code = "PHASE2_FAILED"

\* C10: when generate_guarded returns generation_exhausted, last_compiler_error
\* is the raw error of the most recent failed compile call of the request, over
\* all generation attempts.
C10_LastCompilerErrorIsLatest ==
    (EngineExhaustedReturn /\ hist.last_failed_raw # "none") =>
        result.error.last_compiler_error = hist.last_failed_raw

ReportReturned == entry = "calculate_audit_report" /\ pc = "returned"

\* C11: for every input of calculate_audit_report, deployment_allowed is true
\* if and only if deterministic_score >= 50 and semantic_score > 0 and the
\* displayed total_score >= 75, the displayed total being
\* max(20, deterministic_score + semantic_score).
C11_DeploymentGate ==
    ReportReturned =>
        /\ ret.total_score =
               Max(20, ret.deterministic_score + ret.semantic_score)
        /\ ret.deployment_allowed <=>
               (ret.deterministic_score >= 50 /\ ret.semantic_score > 0
                    /\ ret.total_score >= 75)

\* A report at the edge of the gate: deterministic 50, displayed total 75.
C11_Witness ==
    /\ ReportReturned /\ ret.deployment_allowed
    /\ ret.deterministic_score = 50 /\ ret.total_score = 75

\* C12: with semantic category funds_unspendable, whatever the issues, the
\* compile result and the business-logic score, semantic_score is 0 and
\* deployment_allowed is false -- also with the full deterministic score 70.
C12_FundsUnspendableBlocks ==
    (ReportReturned /\ args.semantic_category = "funds_unspendable") =>
        /\ ret.semantic_score = 0
        /\ ~ret.deployment_allowed

C12_Witness ==
    /\ ReportReturned /\ args.semantic_category = "funds_unspendable"
    /\ args.business_logic_score = 8
    /\ ret.deterministic_score = 70

\* The penalties the claim gives, applied to the highest-severity instance
\* observed for each rule id.
RECURSIVE ClaimedDeductions(_, _)
ClaimedDeductions(worst, rules) ==
    IF rules = {} THEN 0
    ELSE LET r == CHOOSE x \in rules : TRUE
             p == CASE worst[r] = "CRITICAL" -> 20
                    [] worst[r] = "HIGH"     -> 10
                    [] worst[r] = "MEDIUM"   -> 5
                    [] worst[r] = "LOW"      -> 2
                    [] OTHER                 -> 0
         IN  p + ClaimedDeductions(worst, rules \ {r})

\* C13: deterministic_score is 0 when compile_success is false, and otherwise
\* max(0, 70 - sum over distinct rule ids of the penalty of that id's
\* highest-severity instance) with penalties CRITICAL 20, HIGH 10, MEDIUM 5,
\* LOW 2, INFO 0; it is always within 0..70, and several issues with one rule
\* id deduct once.
C13_DeterministicScore ==
    /\ (entry = "calculate_audit_report" /\ pc = "semantic") =>
          /\ locals.det_score =
                 IF ~args.compile_success THEN 0
                 ELSE Max(0, 70 - ClaimedDeductions(hist.worst,
                                 {r \in RuleIds : hist.worst[r] # "absent"}))
          /\ locals.det_score \in 0..70
    /\ ReportReturned => ret.deterministic_score \in 0..70

\* Four issues on two rule ids, the weaker instance first: 70 - 20 - 10.
C13_Witness ==
    /\ entry = "calculate_audit_report" /\ pc = "semantic"
    /\ args.compile_success /\ hist.repeated /\ args.issues_read = 4
    /\ locals.det_score = 40
    /\ Cardinality({r \in RuleIds : hist.worst[r] # "absent"}) = 2

Phase3Returned == entry = "Phase3.validate" /\ pc = "returned"

\* C14: for every source that parses, the structural_score returned by
\* Phase3.validate is (number of registered detectors that returned no
\* violation) / (number of registered detectors), whichever detectors fire,
\* several at once included.
C14_StructuralScoreCountsDetectors ==
    (Phase3Returned /\ args.parses) =>
        ret.structural_score =
            [num |-> total_detectors - Cardinality(hist.fired),
             den |-> total_detectors]

LintReturned == entry = "DSLLinter.lint" /\ pc = "returned"

\* The violations of the detectors in fired among the first n of the registry,
\* in registry order.
RECURSIVE ViolationsInOrder(_, _)
ViolationsInOrder(fired, n) ==
    IF n = 0 THEN << >>
    ELSE ViolationsInOrder(fired, n - 1)
         \o (IF n \in fired THEN <<ViolationDict(n)>> ELSE << >>)

\* What the rules that did not raise returned, among the first n of RULES, in
\* registry order.
RECURSIVE FindingsInOrder(_, _, _)
FindingsInOrder(returned, raised, n) ==
    IF n = 0 THEN << >>
    ELSE FindingsInOrder(returned, raised, n - 1)
         \o (IF n \in raised THEN << >> ELSE returned[n])

\* C15: when any subset of the detectors (validate_code) or of the lint rules
\* (lint) raises an internal error the batch still completes, every detector
\* and rule has run, and the violation list is exactly the violations of those
\* that did not raise, in registry order; one that raises contributes nothing.
C15_RaisingCheckIsSkipped ==
    /\ pc # "raised"
    /\ (entry = "Phase3.validate" /\ pc = "detect") =>
          /\ hist.ran = 1..(locals.i - 1)
          /\ locals.violations = ViolationsInOrder(hist.fired, locals.i - 1)
    /\ (Phase3Returned /\ args.parses) =>
          /\ hist.ran = Detectors
          /\ hist.fired \cap hist.raised = {}
          /\ ret.violations = ViolationsInOrder(hist.fired, total_detectors)
          /\ \A k \in 1..Len(ret.violations) : ret.violations[k].by \notin hist.raised
    /\ (entry = "DSLLinter.lint" /\ pc = "lint") =>
          hist.ran = 1..(locals.i - 1)
    /\ (LintReturned /\ ~args.empty) =>
          /\ hist.ran = LintRules
          /\ hist.fired \cap hist.raised = {}
          /\ ret.violations =
                FindingsInOrder(hist.returned, hist.raised, Len(RULES))
          /\ \A i \in hist.raised, k \in 1..Len(ret.violations) :
                ret.violations[k].rule_id # RULES[i].rule_id

\* A run of validate_code in which a detector raised before a later one
\* reported a violation, and an earlier one had reported one too.
C15_Witness ==
    /\ Phase3Returned /\ args.parses
    /\ \E a, b, c \in Detectors :
         /\ a < b /\ b < c
         /\ a \in hist.fired /\ b \in hist.raised /\ c \in hist.fired
    /\ Len(ret.violations) = Cardinality(hist.fired)

\* C16: the frozen-state finding LNC-012 is non-blocking: in mode stateful or
\* vesting a source whose only lint finding is LNC-012 gets passed = true from
\* lint, so that the lint loop of generate_guarded accepts the draft.
C16_FrozenStateIsNonBlocking ==
    (/\ LintReturned /\ ~args.empty
     /\ LowerStrip(args.contract_mode) \in {"stateful", "vesting"}
     /\ ret.violations # << >>
     /\ \A k \in 1..Len(ret.violations) : ret.violations[k].rule_id = "LNC-012")
        => ret.passed

SelfAnchorReturned == entry = "_check_covenant_self_anchor" /\ pc = "returned"

\* C17: the self-anchor rule LNC-008 is mode-conditional on one contract body:
\* under mode vesting, covenant or vault every function that touches outputs
\* and has no continuation check (no self-anchor equality) gets a violation;
\* under mode multisig there is none; under mode distribution or burn there is
\* a violation exactly when the source uses this.activeBytecode.
C17_SelfAnchorIsModeConditional ==
    SelfAnchorReturned =>
        LET mode == LowerStrip(args.contract_mode)
            flagged == {ret.violations[j].at : j \in 1..Len(ret.violations)}
        IN  /\ mode \in {"vesting", "covenant", "vault"} =>
                  /\ hist.lacking \subseteq flagged
                  /\ flagged \cap hist.anchored = {}
            /\ mode = "multisig" => ret.violations = << >>
            /\ mode \in {"distribution", "burn"} =>
                  /\ args.has_self_ref <=> ret.violations # << >>
                  /\ Len(ret.violations) <= 1

\* Under mode vesting a contract with one function that touches outputs
\* without a self-anchor and one that is anchored: one violation, for the first.
C17_Witness ==
    /\ SelfAnchorReturned
    /\ args.contract_mode = "vesting"
    /\ hist.lacking # {} /\ hist.anchored # {}
    /\ Len(ret.violations) = 1
    /\ ret.violations[1].at \in hist.lacking

DetectorReturned(detector) == entry = detector /\ pc = "returned"

\* Statement j of the source divides by a divisor that a guard <d> > 0 earlier
\* in the same function protects.
GuardPrecedes(stmts, j) ==
    \E i \in 1..(j - 1) :
        /\ stmts[i].kind = "guard_gt"
        /\ stmts[i].function = stmts[j].function
        /\ stmts[i].divisor = stmts[j].divisor

\* The function of statement j holds no guard <d> > 0 on its divisor at all.
NoGuardInFunction(stmts, j) ==
    \A i \in 1..Len(stmts) :
        ~(/\ stmts[i].kind = "guard_gt"
          /\ stmts[i].function = stmts[j].function
          /\ stmts[i].divisor = stmts[j].divisor)

IsDivision(s) == s.kind \in {"divide", "modulo"}

\* C18: the Division-By-Zero detector does not flag when every divide or modulo
\* operation a / b has a guard b > 0 before it in the same function, and flags
\* when some operation stands in a function with no such guard.
C18_GuardedDivisionNotFlagged ==
    DetectorReturned("DivisionByZeroDetector") =>
        /\ (\A j \in 1..Len(hist.stmts) :
               IsDivision(hist.stmts[j]) => GuardPrecedes(hist.stmts, j))
              => ~ret.violation
        /\ (\E j \in 1..Len(hist.stmts) :
               IsDivision(hist.stmts[j]) /\ NoGuardInFunction(hist.stmts, j))
              => ret.violation

\* C19: the Token Pair Completeness detector returns a violation if and only
\* if some output index has a tokenCategory validation without a tokenAmount
\* validation or a tokenAmount validation without a tokenCategory validation.
C19_TokenPairBothDirections ==
    DetectorReturned("TokenPairValidationDetector") =>
        LET cat == {hist.stmts[j].index : j \in
                      {i \in 1..Len(hist.stmts) : hist.stmts[i].kind = "token_category"}}
            amt == {hist.stmts[j].index : j \in
                      {i \in 1..Len(hist.stmts) : hist.stmts[i].kind = "token_amount"}}
        IN  ret.violation <=> (cat \ amt) \cup (amt \ cat) # {}

\* Statement j of the source reads a field other than lockingBytecode of an
\* output whose lockingBytecode no validation of the same function asserts
\* equality on.
ReadsUnanchoredOutput(stmts, j) ==
    /\ stmts[j].kind \in {"value", "locking_ne_value"}
    /\ \A i \in 1..Len(stmts) :
         ~(/\ stmts[i].kind = "locking_eq"
           /\ stmts[i].function = stmts[j].function
           /\ stmts[i].index = stmts[j].index)

\* C20: the Implicit Output Ordering detector returns a violation if and only
\* if some reference tx.outputs[N].p, p other than lockingBytecode, stands in a
\* function without a validation asserting equality on
\* tx.outputs[N].lockingBytecode for the same N in the same function.
C20_ImplicitOrderingIff ==
    DetectorReturned("ImplicitOutputOrderingDetector") =>
        (ret.violation <=>
            \E j \in 1..Len(hist.stmts) : ReadsUnanchoredOutput(hist.stmts, j))

AuditReturned == entry = "AuditAgent.audit" /\ pc = "returned"

\* C21: an audit of a contract that compiles, has no lint and no toll-gate
\* finding, and is classified none by a response without a
\* business_logic_score field reports deterministic_score 70, semantic_score
\* 30, total_score 100 and deployment_allowed true.
C21_CleanContractScores100 ==
    (/\ AuditReturned /\ args.compile_success
     /\ args.lint = << >> /\ args.toll_gate = << >>
     /\ ~args.response.failed /\ ~args.response.has_biz
     /\ StripLower(args.response.category) = "none")
        => /\ ret.deterministic_score = 70
           /\ ret.semantic_score = 30
           /\ ret.total_score = 100
           /\ ret.deployment_allowed

\* The issues of the report the audit injected for the semantic category.
SemanticIssues == {i \in ret.issues : i.rule_id = "semantic_funds_unspendable"}

ClassifiedAs(category) ==
    /\ AuditReturned /\ args.compile_success /\ ~args.response.failed
    /\ StripLower(args.response.category) = category

\* C22: when the audit classifies the contract funds_unspendable, the issues of
\* its report contain exactly one issue of rule id semantic_funds_unspendable,
\* of severity CRITICAL and not fixable; when it classifies the contract none,
\* they contain no such issue.
C22_FundsUnspendableInjectsIssue ==
    /\ ClassifiedAs("funds_unspendable") =>
          /\ Cardinality(SemanticIssues) = 1
          /\ \A i \in SemanticIssues : i.severity = "CRITICAL" /\ ~i.can_fix
    /\ ClassifiedAs("none") => SemanticIssues = {}

\* Findings the linter declared below an error.
DeclaredMinor(finding) == finding.severity \in {"warning", "info"}

\* C28: a lint finding declared warning or info is reported as an issue of
\* severity at most LOW, and an audit whose only finding it is deducts at most
\* 2 points from the deterministic score.
C28_LintSeverityNotRaised ==
    AuditReturned =>
        \A k \in 1..Len(args.lint) :
            DeclaredMinor(args.lint[k]) =>
                /\ \A i \in ret.issues :
                     (i.origin = "lint" /\ i.rule_id = args.lint[k].rule_id)
                        => DET_PENALTIES(i.severity) <= DET_PENALTIES("LOW")
                /\ (args.compile_success /\ Len(args.lint) = 1
                    /\ args.toll_gate = << >>)
                        => ret.deterministic_score >= DET_MAX - 2

\* C23: under mode token the self-anchor rule LNC-008 requires no continuation:
\* a function that is not a burn function, validates token fields and has no
\* self-anchor gets no LNC-008 violation.
C23_TokenModeNeedsNoSelfAnchor ==
    (SelfAnchorReturned /\ LowerStrip(args.contract_mode) = "token") =>
        \A j \in 1..Len(ret.violations) :
            ret.violations[j].at \notin hist.token_checks

\* C26: in every generation attempt, the first included, when the lint gate
\* fails and a lint retry remains, the regeneration request carries the failing
\* lint violations as fix feedback.
C26_LintRetryCarriesViolations ==
    (entry = "generate_guarded" /\ pc = "phase2_linting" /\ lint_attempt > 0) =>
        /\ lint_result.violations # {}
        /\ hist.regen_ctx = lint_result.violations

\* A step of the compile-fix loop that returns from _request_syntax_fix.
FixReturns == pc = "phase2_compile_fix" /\ pc' # "raised"

\* C30: in the compile-fix loop of one generation attempt every repaired draft
\* is compiled before the attempt is abandoned, the compiler runs at most 3
\* times and a repair is requested at most 2 times.
C30_EveryRepairIsCompiled ==
    [][/\ FixReturns => /\ pc' = "phase2_compiling"
                        /\ fix_attempt < max_fix_retries - 1
       /\ (pc = "phase2_compiling" /\ pc' # pc) => fix_attempt < max_fix_retries]_vars

SyntaxFixDone == entry = "_request_syntax_fix" /\ pc \in {"returned", "raised"}

\* A rewrite of the deterministic fixes has something to rewrite in the source.
RewriteApplies(source, e) ==
    \/ e.type = "UnusedVariableError" /\ e.token # "" /\ Count(source, "decl_x") > 0
    \/ /\ e.type = "ExtraneousInputError" /\ e.token = "<EOF>"
       /\ Count(source, "{") > Count(source, "}")
    \/ /\ e.type = "ExtraneousInputError" /\ e.token = "tx.time"
       /\ Count(source, "require_time_and") > 0
    \/ e.type = "TypeMismatchError" /\ e.raw_has_bytes32 /\ Count(source, "bytes_b") > 0
    \/ e.type = "ParseError" /\ e.token = "?" /\ Count(source, "?") > 0

\* C27: in _request_syntax_fix the oracle is called if and only if no
\* deterministic fix applies, and whenever the step returns without an oracle
\* call the code it returns differs from the code that failed to compile.
C27_OracleOnlyWithoutDeterministicFix ==
    SyntaxFixDone =>
        /\ hist.oracle_calls > 0 <=> ~RewriteApplies(args.code, args.error_obj)
        /\ hist.oracle_calls <= 1
        /\ (pc = "returned" /\ hist.oracle_calls = 0) => ret.code # args.code

\* A stray ternary is stripped without the oracle, between two blank lines
\* that go as well.
C27_Witness ==
    /\ SyntaxFixDone /\ pc = "returned"
    /\ hist.oracle_calls = 0
    /\ args.error_obj.type = "ParseError"
    /\ args.code = <<"blank", "?", "blank">>
    /\ ret.code = <<"ternary_stripped">>

SessionConsistent(session) ==
    /\ \A i \in 1..Len(session.history) : session.history[i].turn = i
    /\ session.history # << >> =>
          session.current_code = session.history[Len(session.history)].final_code

C25_FallbackInOrder ==
    entry = "ResilientProvider.complete" =>
        /\ \A k \in 1..Len(hist.tried) : hist.tried[k].config = k
        /\ Len(hist.tried) <= args.configs
        /\ (pc = "returned") =>
              /\ ret.config = Len(hist.tried)
              /\ Len(hist.errors) = ret.config - 1
        /\ (pc # "loop" /\ Len(hist.errors) = args.configs) =>
              /\ pc = "raised" /\ ret.type = "RuntimeError"
              /\ ret.final_error = hist.errors[args.configs]
        /\ (pc = "raised" /\ ret.type = "RuntimeError") =>
              Len(hist.errors) = args.configs

\* Three configurations failed with three different errors; the error raised
\* reports the third.
C25_Witness ==
    /\ entry = "ResilientProvider.complete" /\ pc = "raised"
    /\ args.configs = 3
    /\ hist.errors = <<"timeout", "rate_limit", "bad_request">>
    /\ ret.type = "RuntimeError" /\ ret.final_error = "bad_request"

====
